---------------------------- MODULE Spec2Model ----------------------------
(***************************************************************************)
(* Model of flexible_shared_memory.SharedMemory: the seqlock slot          *)
(* protocol, the per-field status bytes, the string codec and the ring     *)
(* (FIFO) controller, as implemented in                                     *)
(* src/source/flexible_shared_memory/shared_memory.py.                      *)
(*                                                                         *)
(* The specifications share the state:                                     *)
(*   Spec        whole operations (write, finalize, read) of one handle,   *)
(*               each executed without interleaving;                       *)
(*   ConcSpec    one writer process and one reader process whose           *)
(*               operations are interleaved at the granularity of the      *)
(*               individual loads and stores of shared memory;             *)
(*   CodecSpec   one value on its way through the write and the read of a  *)
(*               field;                                                    *)
(*   RaiseSpec   Spec with updates whose write raises part-way;            *)
(*   PollSpec    the polling loop of read();                               *)
(*   LayoutSpec  the layout of a schema and the addresses of the stores.   *)
(***************************************************************************)
EXTENDS Integers, Sequences, FiniteSets, TLC

(***************************************************************************)
(* Bounds of the model.                                                    *)
(***************************************************************************)
\* slot count of the ring (slots > 1); single-slot mode always has 1 slot
NSlots == 2
\* declared maximum number of code points of the string field ("str[n]")
MaxChars == 1
\* number of slot writes (write() of a single slot, finalize() of a ring) the
\* writer performs; reads are not bounded, the state they reach is finite
MaxWrites == 3
\* the same number, where the writer runs beside a reader (ConcSpec)
MaxConcWrites == 2
\* CodecSpec: the declared array shape is (ArrayLen, 1); LayoutSpec: the
\* declared array shapes are (0), (ArrayLen) and (ArrayLen, 2)
ArrayLen == 2

(***************************************************************************)
(* FieldStatus: the bit masks of the status byte.                          *)
(***************************************************************************)
MASK_TRUNCATED == 1
MASK_UNWRITTEN == 2
MASK_MODIFIED == 4

\* status & mask != 0, for a mask that is a single bit
HasBit(status, mask) == (status \div mask) % 2 = 1
\* status | mask
BitOr(status, mask) == IF HasBit(status, mask) THEN status ELSE status + mask
\* status & ~mask
BitAndNot(status, mask) == IF HasBit(status, mask) THEN status - mask ELSE status

is_truncated(status) == HasBit(status, MASK_TRUNCATED)
is_unwritten(status) == HasBit(status, MASK_UNWRITTEN)
is_modified(status) == HasBit(status, MASK_MODIFIED)
\* faulty variant of is_valid that takes an unwritten field for valid
is_valid_IgnoresUnwritten(status) == ~is_truncated(status)

is_valid(status) == ~(is_truncated(status) \/ is_unwritten(status))

\* ValueWithStatus.valid of a field of a returned record
valid(field_value) == is_valid(field_value.status)

(***************************************************************************)
(* The schema: the dataclass MixedData of the tests, a float scalar and a  *)
(* bounded string, in declaration order.                                   *)
(***************************************************************************)
fields ==
  << [name |-> "position", is_scalar |-> TRUE, is_string |-> FALSE,
      string_max_chars |-> 0],
     [name |-> "name", is_scalar |-> FALSE, is_string |-> TRUE,
      string_max_chars |-> MaxChars] >>

num_fields == Len(fields)
FieldIdx == 1..num_fields
FieldNames == {fields[i].name : i \in FieldIdx}

\* capacity of the UTF-8 payload buffer of a string field: max_chars * 4
StringCapacity(field_info) == field_info.string_max_chars * 4

(***************************************************************************)
(* Codec.  A string is a sequence of code points; memory holds bytes.      *)
(***************************************************************************)
\* str.encode('utf-8') of one code point
EncodeCodePoint(cp) ==
  IF cp < 128 THEN << cp >>
  ELSE IF cp < 2048 THEN << 192 + (cp \div 64), 128 + (cp % 64) >>
  ELSE IF cp < 65536
    THEN << 224 + (cp \div 4096), 128 + ((cp \div 64) % 64), 128 + (cp % 64) >>
    ELSE << 240 + (cp \div 262144), 128 + ((cp \div 4096) % 64),
            128 + ((cp \div 64) % 64), 128 + (cp % 64) >>

RECURSIVE EncodeUtf8(_)
EncodeUtf8(s) ==
  IF s = << >> THEN << >> ELSE EncodeCodePoint(Head(s)) \o EncodeUtf8(Tail(s))

IsCont(b) == b >= 128 /\ b < 192

\* bytes.decode('utf-8', errors='ignore'): well-formed sequences decode to
\* their code point, every byte that starts no well-formed sequence is dropped
RECURSIVE DecodeUtf8(_)
DecodeUtf8(bs) ==
  IF bs = << >> THEN << >>
  ELSE LET b == bs[1]
           n == Len(bs)
       IN IF b < 128 THEN << b >> \o DecodeUtf8(Tail(bs))
          ELSE IF b >= 194 /\ b < 224 /\ n >= 2 /\ IsCont(bs[2])
            THEN << (b - 192) * 64 + (bs[2] - 128) >>
                 \o DecodeUtf8(SubSeq(bs, 3, n))
          ELSE IF b >= 224 /\ b < 240 /\ n >= 3 /\ IsCont(bs[2]) /\ IsCont(bs[3])
                  /\ (b = 224 => bs[2] >= 160) /\ (b = 237 => bs[2] < 160)
            THEN << (b - 224) * 4096 + (bs[2] - 128) * 64 + (bs[3] - 128) >>
                 \o DecodeUtf8(SubSeq(bs, 4, n))
          ELSE IF b >= 240 /\ b < 245 /\ n >= 4 /\ IsCont(bs[2]) /\ IsCont(bs[3])
                  /\ IsCont(bs[4])
                  /\ (b = 240 => bs[2] >= 144) /\ (b = 244 => bs[2] < 144)
            THEN << (b - 240) * 262144 + (bs[2] - 128) * 4096
                    + (bs[3] - 128) * 64 + (bs[4] - 128) >>
                 \o DecodeUtf8(SubSeq(bs, 5, n))
          ELSE DecodeUtf8(Tail(bs))

\* _write_scalar for a float field: the value is stored as a float64.  The
\* model's scalars are small integers, which float64 represents exactly.
write_scalar(body, value) == value

\* _read_scalar for a float field
read_scalar(body) == body

\* faulty variant of write_string that decides truncation by the byte count
write_string_ByBytes(body, value, field_info) ==
  LET truncated == Len(EncodeUtf8(value)) > field_info.string_max_chars
      kept == IF truncated THEN SubSeq(value, 1, field_info.string_max_chars)
              ELSE value
      encoded == EncodeUtf8(kept)
  IN [body |-> [len |-> Len(encoded),
                buf |-> encoded \o SubSeq(body.buf, Len(encoded) + 1,
                                          Len(body.buf))],
      truncated |-> truncated]

\* _write_string: truncate to max_chars code points, encode, store the byte
\* length and the bytes; bytes of the buffer beyond the length keep their old
\* content.  Yields the new body and the truncated flag.
write_string(body, value, field_info) ==
  LET truncated == Len(value) > field_info.string_max_chars
      kept == IF truncated THEN SubSeq(value, 1, field_info.string_max_chars)
              ELSE value
      encoded == EncodeUtf8(kept)
  IN [body |-> [len |-> Len(encoded),
                buf |-> encoded \o SubSeq(body.buf, Len(encoded) + 1,
                                          Len(body.buf))],
      truncated |-> truncated]

\* _read_string: read the length, that many bytes, decode
read_string(body, field_info) == DecodeUtf8(SubSeq(body.buf, 1, body.len))

\* the body of a field in freshly created (zero-filled) shared memory
ZeroBody(field_info) ==
  IF field_info.is_string
    THEN [len |-> 0, buf |-> [i \in 1..StringCapacity(field_info) |-> 0]]
    ELSE 0

\* the value part of _write_to_slot for one field: body and truncated flag
WriteValue(body, value, field_info) ==
  IF field_info.is_scalar
    THEN [body |-> write_scalar(body, value), truncated |-> FALSE]
    ELSE write_string(body, value, field_info)

\* the value part of _read_from_slot for one field
ReadValue(body, field_info) ==
  IF field_info.is_scalar THEN read_scalar(body)
  ELSE read_string(body, field_info)

(***************************************************************************)
(* Codec of the other field kinds: int and bool scalars, arrays.           *)
(***************************************************************************)
\* int.to_bytes(width, 'little') of n, 0 <= n < 256^width
RECURSIVE ToBytes(_, _)
ToBytes(n, width) ==
  IF width = 0 THEN << >>
  ELSE << n % 256 >> \o ToBytes(n \div 256, width - 1)

\* int.from_bytes(bs, 'little')
RECURSIVE FromBytes(_)
FromBytes(bs) ==
  IF bs = << >> THEN 0 ELSE bs[1] + 256 * FromBytes(Tail(bs))

\* the largest int32, 2^31 - 1
INT32_MAX == 2147483647

\* store of an integer -2^31 <= value < 2^31 in a numpy int32 element: four
\* bytes, little-endian two's complement (the low 31 bits, then the sign bit)
write_int32(value) ==
  LET low31 == IF value >= 0 THEN value ELSE (value + INT32_MAX) + 1
      bs == ToBytes(low31, 4)
  IN IF value >= 0 THEN bs ELSE [bs EXCEPT ![4] = @ + 128]

\* faulty variant of read_int32 that reads the four bytes without the sign
read_int32_NoSign(bs) ==
  FromBytes([bs EXCEPT ![4] = @ % 128])

\* load of a numpy int32 element
read_int32(bs) ==
  IF bs[4] >= 128
    THEN (FromBytes([bs EXCEPT ![4] = @ - 128]) - INT32_MAX) - 1
    ELSE FromBytes(bs)

\* _write_scalar: float64, int32 or one byte for a bool
write_scalar_as(body, value, field_type) ==
  IF field_type = "float" THEN write_scalar(body, value)
  ELSE IF field_type = "int" THEN write_int32(value)
  ELSE IF value THEN 1 ELSE 0

\* _read_scalar
read_scalar_as(body, field_type) ==
  IF field_type = "float" THEN read_scalar(body)
  ELSE IF field_type = "int" THEN read_int32(body)
  ELSE body # 0

\* np.prod(shape)
RECURSIVE Prod(_)
Prod(shape) == IF shape = << >> THEN 1 ELSE Head(shape) * Prod(Tail(shape))

\* faulty variant of write_array that flags only a source that is too long
write_array_SizeOnly(body, value, field_info) ==
  LET expected_size == Prod(field_info.array_shape)
      n == Len(value.flat)
      flat_value == [i \in 1..expected_size |->
                       IF i <= n THEN value.flat[i] ELSE 0]
  IN [body |-> [i \in 1..expected_size |-> write_int32(flat_value[i])],
      truncated |-> n > expected_size]

\* _write_array for an int32 array.  An array is its shape and its elements
\* in row-major order (what value.flatten() yields): compare the shapes, cut
\* to expected_size elements or pad with zeros, store every element.
write_array(body, value, field_info) ==
  LET expected_size == Prod(field_info.array_shape)
      n == Len(value.flat)
      flat_value == [i \in 1..expected_size |->
                       IF i <= n THEN value.flat[i] ELSE 0]
  IN [body |-> [i \in 1..expected_size |-> write_int32(flat_value[i])],
      truncated |-> (value.shape # field_info.array_shape)
                      \/ n > expected_size]

\* _read_array: the elements, reshaped to the declared shape
read_array(body, field_info) ==
  [shape |-> field_info.array_shape,
   flat |-> [i \in 1..Prod(field_info.array_shape) |-> read_int32(body[i])]]

(***************************************************************************)
(* Status byte updates of _write_to_slot and _read_from_slot.              *)
(***************************************************************************)
\* faulty variant of StatusWritten that leaves UNWRITTEN alone
StatusWritten_KeepUnwritten(status, truncated) ==
  LET s2 == BitOr(status, MASK_MODIFIED)
  IN IF truncated THEN BitOr(s2, MASK_TRUNCATED)
     ELSE BitAndNot(s2, MASK_TRUNCATED)

\* faulty variant of StatusWritten that sets TRUNCATED but never clears it
StatusWritten_StickyTruncated(status, truncated) ==
  LET s1 == BitAndNot(status, MASK_UNWRITTEN)
      s2 == BitOr(s1, MASK_MODIFIED)
  IN IF truncated THEN BitOr(s2, MASK_TRUNCATED) ELSE s2

\* a field that is in the update: clear unwritten, set modified, set or
\* clear truncated
StatusWritten(status, truncated) ==
  LET s1 == BitAndNot(status, MASK_UNWRITTEN)
      s2 == BitOr(s1, MASK_MODIFIED)
  IN IF truncated THEN BitOr(s2, MASK_TRUNCATED)
     ELSE BitAndNot(s2, MASK_TRUNCATED)

\* faulty variant of StatusSkipped that leaves MODIFIED alone
StatusSkipped_KeepModified(status) == status

\* faulty variant of StatusSkipped that clears TRUNCATED with MODIFIED
StatusSkipped_ClearsTruncated(status) ==
  BitAndNot(BitAndNot(status, MASK_MODIFIED), MASK_TRUNCATED)

\* a field that is not in the update: clear modified
StatusSkipped(status) == BitAndNot(status, MASK_MODIFIED)

\* faulty variant of StatusReset that clears the whole status byte
StatusReset_ClearAll(status) == 0

\* reset_modified: clear modified
StatusReset(status) == BitAndNot(status, MASK_MODIFIED)


(***************************************************************************)
(* A slot: seq_begin, one status byte and one body per field, seq_end.     *)
(***************************************************************************)
\* faulty variant of initialize_slot that leaves the status bytes zero
initialize_slot_StatusZero ==
  [seq_begin |-> 0,
   status |-> [i \in FieldIdx |-> 0],
   body |-> [i \in FieldIdx |-> ZeroBody(fields[i])],
   seq_end |-> 0]

\* _initialize_slot on zero-filled memory
initialize_slot ==
  [seq_begin |-> 0,
   status |-> [i \in FieldIdx |-> MASK_UNWRITTEN],
   body |-> [i \in FieldIdx |-> ZeroBody(fields[i])],
   seq_end |-> 0]

\* _write_to_slot, loop body for field idx when the field is in the update:
\* the store of the encoded value
WriteFieldBody(slot, idx, data) ==
  [slot EXCEPT !.body[idx] =
     WriteValue(slot.body[idx], data[fields[idx].name], fields[idx]).body]

\* the truncated flag the codec reports for field idx of the update
FieldTruncated(slot, idx, data) ==
  WriteValue(slot.body[idx], data[fields[idx].name], fields[idx]).truncated

\* _write_to_slot, loop body for field idx: the status byte computed from
\* the status byte that was loaded
NewStatus(loaded, idx, data, truncated) ==
  IF fields[idx].name \in DOMAIN data
    THEN StatusWritten(loaded, truncated)
    ELSE StatusSkipped(loaded)

\* _write_to_slot, the whole loop body for field idx
WriteField(slot, idx, data) ==
  IF fields[idx].name \in DOMAIN data
    THEN LET truncated == FieldTruncated(slot, idx, data)
             s1 == WriteFieldBody(slot, idx, data)
         IN [s1 EXCEPT !.status[idx] =
               NewStatus(s1.status[idx], idx, data, truncated)]
    ELSE [slot EXCEPT !.status[idx] =
            NewStatus(slot.status[idx], idx, data, FALSE)]

RECURSIVE WriteFields(_, _, _)
WriteFields(slot, idx, data) ==
  IF idx > num_fields THEN slot
  ELSE WriteFields(WriteField(slot, idx, data), idx + 1, data)

\* faulty variant of write_to_slot that never stores seq_end
write_to_slot_NoSeqEnd(slot, data) ==
  LET seq == slot.seq_begin + 1
      s1 == [slot EXCEPT !.seq_begin = seq]
  IN WriteFields(s1, 1, data)

\* faulty variant of write_to_slot that leaves the slot alone when the update
\* holds no field of the schema
write_to_slot_SkipsEmpty(slot, data) ==
  IF DOMAIN data \cap FieldNames = {} THEN slot
  ELSE LET seq == slot.seq_begin + 1
           s1 == [slot EXCEPT !.seq_begin = seq]
           s2 == WriteFields(s1, 1, data)
       IN [s2 EXCEPT !.seq_end = seq]

\* _write_to_slot: seq_begin := seq + 1, the fields, seq_end := seq + 1
write_to_slot(slot, data) ==
  LET seq == slot.seq_begin + 1
      s1 == [slot EXCEPT !.seq_begin = seq]
      s2 == WriteFields(s1, 1, data)
  IN [s2 EXCEPT !.seq_end = seq]

\* str.encode('utf-8') raises UnicodeEncodeError for a string that holds a
\* surrogate code point (U+D800..U+DFFF)
Encodable(s) == \A i \in 1..Len(s) : s[i] < 55296 \/ s[i] > 57343

\* _write_string completes: the part of the value it keeps can be encoded
CanWrite(field_info, value) ==
  field_info.is_string
    => Encodable(SubSeq(value, 1, IF Len(value) > field_info.string_max_chars
                                    THEN field_info.string_max_chars
                                    ELSE Len(value)))

\* the fields of the update whose write raises
Raising(data) ==
  {i \in FieldIdx : /\ fields[i].name \in DOMAIN data
                    /\ ~CanWrite(fields[i], data[fields[i].name])}

\* _write_to_slot, the loop over the fields idx..last
RECURSIVE WriteFieldsUpTo(_, _, _, _)
WriteFieldsUpTo(slot, idx, last, data) ==
  IF idx > last THEN slot
  ELSE WriteFieldsUpTo(WriteField(slot, idx, data), idx + 1, last, data)

\* _write_to_slot left by an exception in the write of a field: seq_begin is
\* stored, the fields before the raising one are written with their status
\* bytes, the raising field and those after it and seq_end are as before
write_to_slot_raises(slot, data) ==
  LET seq == slot.seq_begin + 1
      s1 == [slot EXCEPT !.seq_begin = seq]
      bad == CHOOSE i \in Raising(data) : \A j \in Raising(data) : i <= j
  IN WriteFieldsUpTo(s1, 1, bad - 1, data)

\* _read_from_slot, loop body for field idx: ValueWithStatus(value, status)
ReadField(slot, idx) ==
  [value |-> ReadValue(slot.body[idx], fields[idx]),
   status |-> slot.status[idx]]

\* the dataclass instance built from the values read, keyed by field name
Record(field_values) ==
  [n \in FieldNames |->
     field_values[CHOOSE i \in FieldIdx : fields[i].name = n]]

\* the record a reader decodes from a slot
SlotRecord(slot) == Record([i \in FieldIdx |-> ReadField(slot, i)])

\* _read_from_slot, the reset_modified loop
ResetModified(slot) ==
  [slot EXCEPT !.status = [i \in FieldIdx |-> StatusReset(slot.status[i])]]

\* faulty variant of read_from_slot that resets MODIFIED on every read
read_from_slot_AlwaysReset(slot, reset_modified) ==
  IF slot.seq_begin # slot.seq_end
    THEN [ok |-> FALSE, data |-> << >>, slot |-> slot, seq |-> slot.seq_begin]
    ELSE [ok |-> TRUE, data |-> SlotRecord(slot),
          slot |-> ResetModified(slot),
          seq |-> slot.seq_begin]

\* _read_from_slot: ok is FALSE for a torn read (the code returns None)
read_from_slot(slot, reset_modified) ==
  IF slot.seq_begin # slot.seq_end
    THEN [ok |-> FALSE, data |-> << >>, slot |-> slot, seq |-> slot.seq_begin]
    ELSE [ok |-> TRUE, data |-> SlotRecord(slot),
          slot |-> IF reset_modified THEN ResetModified(slot) ELSE slot,
          seq |-> slot.seq_begin]

(***************************************************************************)
(* Ring counters.                                                          *)
(***************************************************************************)
\* faulty variant of FinalizeAdvance that keeps the read pointer on overrun
FinalizeAdvance_KeepRead(m, slot_count) ==
  [write_idx |-> m.write_idx + 1, read_idx |-> m.read_idx,
   count |-> IF m.count < slot_count THEN m.count + 1 ELSE m.count]

\* faulty variant of FinalizeAdvance that moves the write pointer by two
FinalizeAdvance_SkipsSlot(m, slot_count) ==
  IF m.count < slot_count
    THEN [write_idx |-> m.write_idx + 2, read_idx |-> m.read_idx,
          count |-> m.count + 1]
    ELSE [write_idx |-> m.write_idx + 2, read_idx |-> m.read_idx + 1,
          count |-> m.count]

\* faulty variant of FinalizeAdvance that counts up on a full ring too
FinalizeAdvance_CountsOn(m, slot_count) ==
  [write_idx |-> m.write_idx + 1, read_idx |-> m.read_idx,
   count |-> m.count + 1]

\* finalize: advance the write pointer; count up, or when full advance the
\* read pointer (overwrite oldest)
FinalizeAdvance(m, slot_count) ==
  IF m.count < slot_count
    THEN [write_idx |-> m.write_idx + 1, read_idx |-> m.read_idx,
          count |-> m.count + 1]
    ELSE [write_idx |-> m.write_idx + 1, read_idx |-> m.read_idx + 1,
          count |-> m.count]

\* faulty variant of LatestAdjust that never skips
LatestAdjust_NoSkip(m, latest) ==
  [write_idx |-> m.write_idx, read_idx |-> m.read_idx, count |-> m.count]

\* _read_fifo with latest: skip to the most recent entry
LatestAdjust(m, latest) ==
  IF latest /\ m.count > 1
    THEN [write_idx |-> m.write_idx, read_idx |-> m.write_idx - 1, count |-> 1]
    ELSE [write_idx |-> m.write_idx, read_idx |-> m.read_idx,
          count |-> m.count]

\* faulty variant of ConsumeAdvance that leaves the read pointer in place
ConsumeAdvance_KeepRead(m) ==
  [write_idx |-> m.write_idx, read_idx |-> m.read_idx, count |-> m.count - 1]

\* faulty variant of ConsumeAdvance that drops every pending message
ConsumeAdvance_DrainsRing(m) ==
  [write_idx |-> m.write_idx, read_idx |-> m.write_idx, count |-> 0]

\* _read_fifo: advance the read pointer
ConsumeAdvance(m) ==
  [write_idx |-> m.write_idx, read_idx |-> m.read_idx + 1,
   count |-> m.count - 1]

\* faulty variant of BufferUpdate that keeps the value staged first
BufferUpdate_KeepFirst(buffer, kwargs) ==
  [n \in DOMAIN buffer \cup DOMAIN kwargs |->
     IF n \in DOMAIN buffer THEN buffer[n] ELSE kwargs[n]]

\* dict.update of the staging buffer
BufferUpdate(buffer, kwargs) ==
  [n \in DOMAIN buffer \cup DOMAIN kwargs |->
     IF n \in DOMAIN kwargs THEN kwargs[n] ELSE buffer[n]]


(***************************************************************************)
(* Inputs of the operations.                                               *)
(***************************************************************************)
\* "a": fits every declared length
ShortString == << 97 >>
\* "e-acute" followed by "b"s, one code point more than the field holds; its
\* first code point takes two bytes
LongString == [i \in 1..(MaxChars + 1) |-> IF i = 1 THEN 233 ELSE 98]

\* the keyword arguments of write(): no field, the scalar alone, the string
\* alone (too long for the field), both fields (the string fits)
Updates ==
  { << >>,
    [position |-> 1],
    [name |-> LongString],
    [position |-> 2, name |-> ShortString] }

\* the keyword arguments of write() on a single slot: those of Updates, and
\* a name that is no field of the schema
DirectUpdates == Updates \cup { [comment |-> 1] }

\* the keyword arguments the writer uses beside a reader: the string alone
\* (too long for the field), both fields (the string fits)
ConcUpdates ==
  { [name |-> LongString],
    [position |-> 2, name |-> ShortString] }

(***************************************************************************)
(* State.                                                                  *)
(***************************************************************************)
VARIABLES
  slots,               \* the slot count the handles were constructed with
  mem,                 \* shared memory: the slots, by slot index
  meta,                \* shared memory: write_idx, read_idx, count (ring)
  write_buffer,        \* the writer handle's staging buffer
  write_buffer_dirty,  \* the writer handle's dirty flag
  ret,                 \* the latest completed call and what it returned
  published,           \* history: (slot, seq) of every slot write, in order
  snapshots,           \* history: per slot, the records completed writes left
                       \* (Spec: the latest one; ConcSpec: all, in order)
  wrote,               \* history: per slot, the status bytes the writer stored
  delivered,           \* history: (slot, seq) of the latest record returned
  opts_used,           \* ConcSpec history: the options that took effect in
                       \* some read
  ncommits,            \* number of slot writes started
  wpc,                 \* ConcSpec: the writer's position
  w,                   \* ConcSpec: the writer's local variables
  rpc,                 \* ConcSpec: the reader's position
  r,                   \* ConcSpec: the reader's local variables
  codec,               \* CodecSpec: one field's value on its way through the codec
  layout               \* LayoutSpec: a schema, its layout and the byte addresses
                       \* the latest operation stored to

vars == << slots, mem, meta, write_buffer, write_buffer_dirty, ret, published,
           snapshots, wrote, delivered, opts_used, ncommits,
           wpc, w, rpc, r, codec, layout >>

conc_vars == << wpc, w, rpc, r >>

\* what the operations on the region leave alone: the slot count, and the
\* state of the codec and of the layout run
fixed_vars == << slots, codec, layout >>

is_fifo == slots > 1
SlotIdx == 0..(slots - 1)

\* the shape of ret; fields a call does not use keep these values (polls: the
\* number of times a read() slept before it returned)
NoRet ==
  [op |-> "none", result |-> "none", kwargs |-> << >>, slot_idx |-> 0,
   seq |-> 0, data |-> << >>, latest |-> FALSE, reset_modified |-> FALSE,
   polls |-> 0]

\* no record returned yet
NoDelivery == [slot_idx |-> 0, seq |-> 0]

WriterLocals0 ==
  [data |-> << >>, slot_idx |-> 0, seq |-> 0, idx |-> 1, status |-> 0,
   truncated |-> FALSE, write_idx |-> 0, read_idx |-> 0, count |-> 0]

ReaderLocals0 ==
  [timeout |-> 0, latest |-> FALSE, reset_modified |-> FALSE, slot_idx |-> 0,
   seq_begin |-> 0, idx |-> 1, status |-> 0,
   field_values |-> [i \in FieldIdx |-> [value |-> 0, status |-> 0]],
   write_idx |-> 0, read_idx |-> 0, count |-> 0,
   expired |-> FALSE, polls |-> 0]

\* faulty variant of init_region that initializes an opened region too
init_region_AlwaysInitializes(create, region) ==
  [mem |-> [s \in SlotIdx |-> initialize_slot],
   meta |-> [write_idx |-> 0, read_idx |-> 0, count |-> 0]]

\* SharedMemory.__init__, "Create or open shared memory": the slots and the
\* counters of the region after construction.  create=True sets the counters
\* to zero and initializes every slot; create=False attaches to the region
\* and stores nothing
init_region(create, region) ==
  IF create
    THEN [mem |-> [s \in SlotIdx |-> initialize_slot],
          meta |-> [write_idx |-> 0, read_idx |-> 0, count |-> 0]]
    ELSE region

\* SharedMemory.__init__ with create=True: the ring counters are zero and
\* every slot is initialized; the staging buffer is empty
RegionInit ==
  /\ slots \in {1, NSlots}
  /\ mem = init_region(TRUE, << >>).mem
  /\ meta = init_region(TRUE, << >>).meta
  /\ write_buffer = << >>
  /\ write_buffer_dirty = FALSE
  /\ ret = NoRet
  /\ published = << >>
  /\ snapshots = [s \in SlotIdx |-> << SlotRecord(initialize_slot) >>]
  /\ wrote = [s \in SlotIdx |-> initialize_slot.status]
  /\ delivered = NoDelivery
  /\ opts_used = {}
  /\ ncommits = 0
  /\ wpc = "idle"
  /\ w = WriterLocals0
  /\ rpc = "idle"
  /\ r = ReaderLocals0

\* no value is on its way through the codec
NoCodec ==
  [phase |-> "none", field |-> 1, value |-> 0, body |-> 0, status |-> 0,
   truncated |-> FALSE, out |-> 0]

\* no schema is being laid out
NoLayout ==
  [phase |-> "none", types |-> << >>, fields |-> << >>, total_size |-> 0,
   op |-> "none", slot_idx |-> 0, stores |-> {}]

Init == RegionInit /\ codec = NoCodec /\ layout = NoLayout

\* the options of a read() call that take effect: latest on a ring,
\* reset_modified on a single slot
OptionsOf(latest, reset_modified) ==
  (IF latest THEN {"latest"} ELSE {})
  \cup (IF reset_modified THEN {"reset_modified"} ELSE {})

\* the position of a slot write in the order of publication, 0 if (slot, seq)
\* is no write
PubIndex(d) ==
  IF \E k \in 1..Len(published) : published[k] = d
    THEN CHOOSE k \in 1..Len(published) : published[k] = d
    ELSE 0

(***************************************************************************)
(* Spec: whole operations.                                                 *)
(***************************************************************************)
\* faulty variant of CommitSlot that starts from the fields of the slot
\* written before (the latest message) instead of the slot's own
CommitSlot_CarriesLatest(slot_idx, data) ==
  LET before == mem[(slot_idx + slots - 1) % slots]
      new == write_to_slot([mem[slot_idx] EXCEPT !.status = before.status,
                                                 !.body = before.body], data)
  IN /\ ncommits < MaxWrites
     /\ ncommits' = ncommits + 1
     /\ mem' = [mem EXCEPT ![slot_idx] = new]
     /\ published' =
          Append(published, [slot_idx |-> slot_idx, seq |-> new.seq_begin])
     /\ snapshots' =
          [snapshots EXCEPT ![slot_idx] = << SlotRecord(new) >>]
     /\ wrote' = [wrote EXCEPT ![slot_idx] = new.status]

\* the call self._write_to_slot(slot_idx, data) and the histories of it
CommitSlot(slot_idx, data) ==
  LET new == write_to_slot(mem[slot_idx], data)
  IN /\ ncommits < MaxWrites
     /\ ncommits' = ncommits + 1
     /\ mem' = [mem EXCEPT ![slot_idx] = new]
     /\ published' =
          Append(published, [slot_idx |-> slot_idx, seq |-> new.seq_begin])
     /\ snapshots' =
          [snapshots EXCEPT ![slot_idx] = << SlotRecord(new) >>]
     /\ wrote' = [wrote EXCEPT ![slot_idx] = new.status]

\* faulty variant of Write that writes slot 0 at once in ring mode too
Write_Through(kwargs) ==
  /\ CommitSlot(0, kwargs)
  /\ ret' = [NoRet EXCEPT !.op = "write",
                          !.result = IF is_fifo THEN "staged" ELSE "committed",
                          !.kwargs = IF is_fifo THEN << >> ELSE kwargs,
                          !.slot_idx = 0,
                          !.seq = IF is_fifo THEN 0 ELSE mem[0].seq_begin + 1]
  /\ UNCHANGED << meta, write_buffer, write_buffer_dirty >>

\* write(**kwargs)
Write(kwargs) ==
  IF is_fifo
    THEN /\ write_buffer' = BufferUpdate(write_buffer, kwargs)
         /\ write_buffer_dirty' = TRUE
         /\ ret' = [NoRet EXCEPT !.op = "write", !.result = "staged"]
         /\ UNCHANGED << mem, meta, published, snapshots, wrote, ncommits >>
    ELSE /\ CommitSlot(0, kwargs)
         /\ ret' = [NoRet EXCEPT !.op = "write", !.result = "committed",
                                 !.kwargs = kwargs, !.slot_idx = 0,
                                 !.seq = mem[0].seq_begin + 1]
         /\ UNCHANGED << meta, write_buffer, write_buffer_dirty >>

\* faulty variant of Finalize that commits on a single slot instead of failing
Finalize_SingleCommits ==
  IF is_fifo /\ ~write_buffer_dirty
    THEN /\ ret' = [NoRet EXCEPT !.op = "finalize", !.result = "nothing"]
         /\ UNCHANGED << mem, meta, write_buffer, write_buffer_dirty,
                         published, snapshots, wrote, ncommits >>
  ELSE LET slot_idx == meta.write_idx % slots
       IN /\ CommitSlot(slot_idx, write_buffer)
          /\ meta' = IF is_fifo THEN FinalizeAdvance(meta, slots) ELSE meta
          /\ write_buffer' = << >>
          /\ write_buffer_dirty' = FALSE
          /\ ret' = [NoRet EXCEPT !.op = "finalize",
                                  !.result = IF is_fifo THEN "committed"
                                             ELSE "RuntimeError",
                                  !.kwargs = write_buffer,
                                  !.slot_idx = slot_idx,
                                  !.seq = mem[slot_idx].seq_begin + 1]

\* faulty variant of Finalize that commits a clean staging buffer as an
\* empty message
Finalize_CommitsClean ==
  IF ~is_fifo
    THEN /\ ret' = [NoRet EXCEPT !.op = "finalize", !.result = "RuntimeError"]
         /\ UNCHANGED << mem, meta, write_buffer, write_buffer_dirty,
                         published, snapshots, wrote, ncommits >>
  ELSE LET slot_idx == meta.write_idx % slots
       IN /\ CommitSlot(slot_idx, write_buffer)
          /\ meta' = FinalizeAdvance(meta, slots)
          /\ write_buffer' = << >>
          /\ write_buffer_dirty' = FALSE
          /\ ret' = [NoRet EXCEPT !.op = "finalize",
                                  !.result = IF write_buffer_dirty
                                               THEN "committed" ELSE "nothing",
                                  !.kwargs = write_buffer,
                                  !.slot_idx = slot_idx,
                                  !.seq = mem[slot_idx].seq_begin + 1]

\* finalize()
Finalize ==
  IF ~is_fifo
    THEN /\ ret' = [NoRet EXCEPT !.op = "finalize", !.result = "RuntimeError"]
         /\ UNCHANGED << mem, meta, write_buffer, write_buffer_dirty,
                         published, snapshots, wrote, ncommits >>
  ELSE IF ~write_buffer_dirty
    THEN /\ ret' = [NoRet EXCEPT !.op = "finalize", !.result = "nothing"]
         /\ UNCHANGED << mem, meta, write_buffer, write_buffer_dirty,
                         published, snapshots, wrote, ncommits >>
  ELSE LET slot_idx == meta.write_idx % slots
       IN /\ CommitSlot(slot_idx, write_buffer)
          /\ meta' = FinalizeAdvance(meta, slots)
          /\ write_buffer' = << >>
          /\ write_buffer_dirty' = FALSE
          /\ ret' = [NoRet EXCEPT !.op = "finalize", !.result = "committed",
                                  !.kwargs = write_buffer,
                                  !.slot_idx = slot_idx,
                                  !.seq = mem[slot_idx].seq_begin + 1]

\* _read_single with timeout=0
read_single(reset_modified) ==
  LET got == read_from_slot(mem[0], reset_modified)
  IN IF got.ok
       THEN /\ mem' = [mem EXCEPT ![0] = got.slot]
            /\ delivered' = [slot_idx |-> 0, seq |-> got.seq]
            /\ ret' = [NoRet EXCEPT !.op = "read", !.result = "data",
                                    !.data = got.data, !.slot_idx = 0,
                                    !.seq = got.seq,
                                    !.reset_modified = reset_modified]
            /\ UNCHANGED meta
       ELSE /\ ret' = [NoRet EXCEPT !.op = "read", !.result = "None",
                                    !.reset_modified = reset_modified]
            /\ UNCHANGED << mem, meta, delivered >>

\* _read_fifo with timeout=0.  A torn slot read makes the loop start over
\* without looking at the timeout: the call returns only once the slot reads
\* consistently, so the whole operation exists only for a consistent slot.
read_fifo(latest) ==
  IF meta.count = 0
    THEN /\ ret' = [NoRet EXCEPT !.op = "read", !.result = "None",
                                 !.latest = latest]
         /\ UNCHANGED << mem, meta, delivered >>
    ELSE LET m == LatestAdjust(meta, latest)
             slot_idx == m.read_idx % slots
             got == read_from_slot(mem[slot_idx], FALSE)
         IN /\ got.ok
            /\ meta' = ConsumeAdvance(m)
            /\ delivered' = [slot_idx |-> slot_idx, seq |-> got.seq]
            /\ ret' = [NoRet EXCEPT !.op = "read", !.result = "data",
                                    !.data = got.data, !.slot_idx = slot_idx,
                                    !.seq = got.seq, !.latest = latest]
            /\ UNCHANGED mem

\* faulty variant of Read that consumes a message before it rejects
\* reset_modified on a ring
Read_ConsumesThenFails(latest, reset_modified) ==
  /\ opts_used' = opts_used
  /\ IF reset_modified /\ is_fifo
       THEN /\ ret' = [NoRet EXCEPT !.op = "read", !.result = "ValueError",
                                    !.latest = latest,
                                    !.reset_modified = reset_modified]
            /\ meta' = IF meta.count > 0 THEN ConsumeAdvance(meta) ELSE meta
            /\ UNCHANGED << mem, delivered >>
     ELSE IF is_fifo THEN read_fifo(latest)
     ELSE read_single(reset_modified)

\* read(timeout=0, latest, reset_modified)
Read(latest, reset_modified) ==
  /\ opts_used' = opts_used
  /\ IF reset_modified /\ is_fifo
       THEN /\ ret' = [NoRet EXCEPT !.op = "read", !.result = "ValueError",
                                    !.latest = latest,
                                    !.reset_modified = reset_modified]
            /\ UNCHANGED << mem, meta, delivered >>
     ELSE IF is_fifo THEN read_fifo(latest)
     ELSE read_single(reset_modified)

\* SharedMemory(..., create=False) in a process that is to read: a new
\* handle on the existing region, with a staging buffer of its own
Open ==
  LET region == init_region(FALSE, [mem |-> mem, meta |-> meta])
  IN /\ mem' = region.mem
     /\ meta' = region.meta
     /\ ret' = [NoRet EXCEPT !.op = "open", !.result = "handle"]

DoWrite ==
  /\ \E kwargs \in (IF is_fifo THEN Updates ELSE DirectUpdates) : Write(kwargs)
  /\ UNCHANGED << fixed_vars, delivered, opts_used, conc_vars >>

DoFinalize ==
  /\ Finalize
  /\ UNCHANGED << fixed_vars, delivered, opts_used, conc_vars >>

DoRead ==
  /\ \E latest \in BOOLEAN, reset_modified \in BOOLEAN :
       Read(latest, reset_modified)
  /\ UNCHANGED << fixed_vars, write_buffer, write_buffer_dirty, published,
                  snapshots, wrote, ncommits, conc_vars >>

DoOpen ==
  /\ Open
  /\ UNCHANGED << fixed_vars, write_buffer, write_buffer_dirty, published,
                  snapshots, wrote, delivered, opts_used, ncommits,
                  conc_vars >>

Next == DoWrite \/ DoFinalize \/ DoRead \/ DoOpen

Spec == Init /\ [][Next]_vars


(***************************************************************************)
(* ConcSpec: the writer process.  Each action is one load or store of      *)
(* shared memory, with the local computation that follows it.              *)
(***************************************************************************)
\* where _write_to_slot continues for field idx: the value store of a field
\* of the update, the status load of any other field, seq_end after the last
FieldStart(idx, data) ==
  IF idx > num_fields THEN "ws_seq_end"
  ELSE IF fields[idx].name \in DOMAIN data THEN "ws_body"
  ELSE "ws_status_load"

\* write(**kwargs): stages (ring) or calls _write_to_slot(0, kwargs)
WCallWrite ==
  /\ wpc = "idle"
  /\ \E kwargs \in ConcUpdates :
       IF is_fifo
         THEN /\ write_buffer' = BufferUpdate(write_buffer, kwargs)
              /\ write_buffer_dirty' = TRUE
              /\ ret' = [NoRet EXCEPT !.op = "write", !.result = "staged"]
              /\ UNCHANGED << wpc, w, ncommits >>
         ELSE /\ ncommits < MaxConcWrites
              /\ ncommits' = ncommits + 1
              /\ w' = [w EXCEPT !.data = kwargs, !.slot_idx = 0]
              /\ wpc' = "ws_read_seq"
              /\ UNCHANGED << write_buffer, write_buffer_dirty, ret >>
  /\ UNCHANGED << fixed_vars, mem, meta, published, snapshots, wrote, delivered,
                  opts_used, rpc, r >>

\* finalize(): the mode check, the dirty check, then _get_fifo_metadata
WCallFinalize ==
  /\ wpc = "idle"
  /\ IF ~is_fifo
       THEN /\ ret' = [NoRet EXCEPT !.op = "finalize",
                                    !.result = "RuntimeError"]
            /\ UNCHANGED << wpc, ncommits >>
     ELSE IF ~write_buffer_dirty
       THEN /\ ret' = [NoRet EXCEPT !.op = "finalize", !.result = "nothing"]
            /\ UNCHANGED << wpc, ncommits >>
     ELSE /\ ncommits < MaxConcWrites
          /\ ncommits' = ncommits + 1
          /\ wpc' = "fin_get_w"
          /\ UNCHANGED ret
  /\ UNCHANGED << fixed_vars, mem, meta, write_buffer, write_buffer_dirty,
                  published, snapshots, wrote, delivered, opts_used, w,
                  rpc, r >>

\* _get_fifo_metadata: load write_idx
WGetWriteIdx ==
  /\ wpc = "fin_get_w"
  /\ w' = [w EXCEPT !.write_idx = meta.write_idx]
  /\ wpc' = "fin_get_r"
  /\ UNCHANGED << fixed_vars, mem, meta, write_buffer, write_buffer_dirty, ret,
                  published, snapshots, wrote, delivered, opts_used,
                  ncommits, rpc, r >>

\* _get_fifo_metadata: load read_idx
WGetReadIdx ==
  /\ wpc = "fin_get_r"
  /\ w' = [w EXCEPT !.read_idx = meta.read_idx]
  /\ wpc' = "fin_get_c"
  /\ UNCHANGED << fixed_vars, mem, meta, write_buffer, write_buffer_dirty, ret,
                  published, snapshots, wrote, delivered, opts_used,
                  ncommits, rpc, r >>

\* _get_fifo_metadata: load count; then slot_idx = write_idx % slots and the
\* call _write_to_slot(slot_idx, write_buffer)
WGetCount ==
  /\ wpc = "fin_get_c"
  /\ w' = [w EXCEPT !.count = meta.count,
                    !.slot_idx = w.write_idx % slots,
                    !.data = write_buffer]
  /\ wpc' = "ws_read_seq"
  /\ UNCHANGED << fixed_vars, mem, meta, write_buffer, write_buffer_dirty, ret,
                  published, snapshots, wrote, delivered, opts_used,
                  ncommits, rpc, r >>

\* _write_to_slot: seq = read seq_begin; seq += 1
WReadSeq ==
  /\ wpc = "ws_read_seq"
  /\ w' = [w EXCEPT !.seq = mem[w.slot_idx].seq_begin + 1]
  /\ wpc' = "ws_seq_begin"
  /\ UNCHANGED << fixed_vars, mem, meta, write_buffer, write_buffer_dirty, ret,
                  published, snapshots, wrote, delivered, opts_used,
                  ncommits, rpc, r >>

\* _write_to_slot: store seq_begin
WSeqBegin ==
  /\ wpc = "ws_seq_begin"
  /\ mem' = [mem EXCEPT ![w.slot_idx].seq_begin = w.seq]
  /\ published' =
       Append(published, [slot_idx |-> w.slot_idx, seq |-> w.seq])
  /\ w' = [w EXCEPT !.idx = 1]
  /\ wpc' = FieldStart(1, w.data)
  /\ UNCHANGED << fixed_vars, meta, write_buffer, write_buffer_dirty, ret,
                  snapshots, wrote, delivered, opts_used, ncommits, rpc, r >>

\* _write_to_slot: store the encoded value of field idx
WBody ==
  /\ wpc = "ws_body"
  /\ mem' = [mem EXCEPT
               ![w.slot_idx] = WriteFieldBody(mem[w.slot_idx], w.idx, w.data)]
  /\ w' = [w EXCEPT
             !.truncated = FieldTruncated(mem[w.slot_idx], w.idx, w.data)]
  /\ wpc' = "ws_status_load"
  /\ UNCHANGED << fixed_vars, meta, write_buffer, write_buffer_dirty, ret,
                  published, snapshots, wrote, delivered, opts_used,
                  ncommits, rpc, r >>

\* _write_to_slot: load the status byte of field idx
WStatusLoad ==
  /\ wpc = "ws_status_load"
  /\ w' = [w EXCEPT !.status = mem[w.slot_idx].status[w.idx]]
  /\ wpc' = "ws_status_store"
  /\ UNCHANGED << fixed_vars, mem, meta, write_buffer, write_buffer_dirty, ret,
                  published, snapshots, wrote, delivered, opts_used,
                  ncommits, rpc, r >>

\* _write_to_slot: store the status byte of field idx
WStatusStore ==
  /\ wpc = "ws_status_store"
  /\ LET truncated == (fields[w.idx].name \in DOMAIN w.data) /\ w.truncated
         status == NewStatus(w.status, w.idx, w.data, truncated)
     IN /\ mem' = [mem EXCEPT ![w.slot_idx].status[w.idx] = status]
        /\ wrote' = [wrote EXCEPT ![w.slot_idx][w.idx] = status]
  /\ w' = [w EXCEPT !.idx = w.idx + 1]
  /\ wpc' = FieldStart(w.idx + 1, w.data)
  /\ UNCHANGED << fixed_vars, meta, write_buffer, write_buffer_dirty, ret,
                  published, snapshots, delivered, opts_used, ncommits,
                  rpc, r >>

\* _write_to_slot: store seq_end; write() of a single slot returns here
WSeqEnd ==
  /\ wpc = "ws_seq_end"
  /\ mem' = [mem EXCEPT ![w.slot_idx].seq_end = w.seq]
  /\ snapshots' =
       [snapshots EXCEPT
          ![w.slot_idx] = Append(@, SlotRecord(mem'[w.slot_idx]))]
  /\ IF is_fifo
       THEN /\ wpc' = "fin_set_w"
            /\ UNCHANGED << ret, w >>
       ELSE /\ wpc' = "idle"
            /\ w' = WriterLocals0
            /\ ret' = [NoRet EXCEPT !.op = "write", !.result = "committed",
                                    !.kwargs = w.data, !.slot_idx = w.slot_idx,
                                    !.seq = w.seq]
  /\ UNCHANGED << fixed_vars, meta, write_buffer, write_buffer_dirty, published,
                  wrote, delivered, opts_used, ncommits, rpc, r >>

\* the counters finalize computes from the ones it loaded
WAdvanced ==
  FinalizeAdvance([write_idx |-> w.write_idx, read_idx |-> w.read_idx,
                   count |-> w.count], slots)

\* _set_fifo_metadata: store write_idx
WSetWriteIdx ==
  /\ wpc = "fin_set_w"
  /\ meta' = [meta EXCEPT !.write_idx = WAdvanced.write_idx]
  /\ wpc' = "fin_set_r"
  /\ UNCHANGED << fixed_vars, mem, write_buffer, write_buffer_dirty, ret,
                  published, snapshots, wrote, delivered, opts_used,
                  ncommits, w, rpc, r >>

\* _set_fifo_metadata: store read_idx
WSetReadIdx ==
  /\ wpc = "fin_set_r"
  /\ meta' = [meta EXCEPT !.read_idx = WAdvanced.read_idx]
  /\ wpc' = "fin_set_c"
  /\ UNCHANGED << fixed_vars, mem, write_buffer, write_buffer_dirty, ret,
                  published, snapshots, wrote, delivered, opts_used,
                  ncommits, w, rpc, r >>

\* _set_fifo_metadata: store count; finalize clears the buffer and returns
WSetCount ==
  /\ wpc = "fin_set_c"
  /\ meta' = [meta EXCEPT !.count = WAdvanced.count]
  /\ write_buffer' = << >>
  /\ write_buffer_dirty' = FALSE
  /\ wpc' = "idle"
  /\ w' = WriterLocals0
  /\ ret' = [NoRet EXCEPT !.op = "finalize", !.result = "committed",
                          !.kwargs = w.data, !.slot_idx = w.slot_idx,
                          !.seq = w.seq]
  /\ UNCHANGED << fixed_vars, mem, published, snapshots, wrote, delivered,
                  opts_used, ncommits, rpc, r >>


(***************************************************************************)
(* ConcSpec: the reader process.                                           *)
(***************************************************************************)
\* the timeout argument of read(): 0 (non-blocking) or positive
Timeouts == {0, 1}

\* what every reader action leaves alone
writer_side ==
  << slots, write_buffer, write_buffer_dirty, published, snapshots, wrote,
     ncommits, wpc, w, codec, layout >>

\* read() returns None
RReturnNone ==
  /\ rpc' = "idle"
  /\ r' = ReaderLocals0
  /\ ret' = [NoRet EXCEPT !.op = "read", !.result = "None",
                          !.latest = r.latest,
                          !.reset_modified = r.reset_modified,
                          !.polls = r.polls]
  /\ UNCHANGED delivered

\* read() returns the dataclass instance built from the values it read
RReturnData ==
  /\ rpc' = "idle"
  /\ r' = ReaderLocals0
  /\ ret' = [NoRet EXCEPT !.op = "read", !.result = "data",
                          !.data = Record(r.field_values),
                          !.slot_idx = r.slot_idx, !.seq = r.seq_begin,
                          !.latest = r.latest,
                          !.reset_modified = r.reset_modified]
  /\ delivered' = [slot_idx |-> r.slot_idx, seq |-> r.seq_begin]

\* the test "timeout == 0 or (time.time() - start_time) >= timeout": always
\* true for timeout 0; for a positive timeout the deadline may have passed
\* (the call gives up) or not (the call sleeps and tries again)
GiveUp(retry_pc) ==
  \/ RReturnNone
  \/ /\ r.timeout > 0
     /\ rpc' = retry_pc
     /\ UNCHANGED << r, ret, delivered >>

\* read(timeout, latest, reset_modified): the mode check, then _read_fifo
\* (timeout, latest) or _read_single(timeout, reset_modified), which has no
\* latest
RCall ==
  /\ rpc = "idle"
  /\ \E timeout \in Timeouts, latest \in BOOLEAN, reset_modified \in BOOLEAN :
       /\ opts_used' = opts_used \cup OptionsOf(is_fifo /\ latest,
                                          ~is_fifo /\ reset_modified)
       /\ IF reset_modified /\ is_fifo
            THEN /\ ret' = [NoRet EXCEPT !.op = "read",
                                         !.result = "ValueError",
                                         !.latest = latest,
                                         !.reset_modified = reset_modified]
                 /\ UNCHANGED << rpc, r >>
            ELSE /\ r' = [ReaderLocals0 EXCEPT
                            !.timeout = timeout,
                            !.latest = (is_fifo /\ latest),
                            !.reset_modified = reset_modified]
                 /\ rpc' = IF is_fifo THEN "rf_get_w" ELSE "rs_seq_begin"
                 /\ UNCHANGED ret
  /\ UNCHANGED << mem, meta, delivered, writer_side >>

\* _get_fifo_metadata: load write_idx
RGetWriteIdx ==
  /\ rpc = "rf_get_w"
  /\ r' = [r EXCEPT !.write_idx = meta.write_idx]
  /\ rpc' = "rf_get_r"
  /\ UNCHANGED << mem, meta, ret, delivered, opts_used, writer_side >>

\* _get_fifo_metadata: load read_idx
RGetReadIdx ==
  /\ rpc = "rf_get_r"
  /\ r' = [r EXCEPT !.read_idx = meta.read_idx]
  /\ rpc' = "rf_get_c"
  /\ UNCHANGED << mem, meta, ret, delivered, opts_used, writer_side >>

\* _get_fifo_metadata: load count; an empty ring gives up or polls again,
\* otherwise latest is applied and slot_idx = read_idx % slots
RGetCount ==
  /\ rpc = "rf_get_c"
  /\ IF meta.count = 0
       THEN GiveUp("rf_get_w")
       ELSE LET m == LatestAdjust([write_idx |-> r.write_idx,
                                   read_idx |-> r.read_idx,
                                   count |-> meta.count], r.latest)
            IN /\ r' = [r EXCEPT !.read_idx = m.read_idx,
                                 !.count = m.count,
                                 !.slot_idx = m.read_idx % slots]
               /\ rpc' = "rs_seq_begin"
               /\ UNCHANGED << ret, delivered >>
  /\ UNCHANGED << mem, meta, opts_used, writer_side >>

\* _read_from_slot: load seq_begin
RSeqBegin ==
  /\ rpc = "rs_seq_begin"
  /\ r' = [r EXCEPT !.seq_begin = mem[r.slot_idx].seq_begin, !.idx = 1]
  /\ rpc' = "rs_status"
  /\ UNCHANGED << mem, meta, ret, delivered, opts_used, writer_side >>

\* _read_from_slot: load the status byte of field idx
RStatus ==
  /\ rpc = "rs_status"
  /\ r' = [r EXCEPT !.status = mem[r.slot_idx].status[r.idx]]
  /\ rpc' = "rs_body"
  /\ UNCHANGED << mem, meta, ret, delivered, opts_used, writer_side >>

\* _read_from_slot: load and decode the value of field idx
RBody ==
  /\ rpc = "rs_body"
  /\ r' = [r EXCEPT
             !.field_values[r.idx] =
                [value |-> ReadValue(mem[r.slot_idx].body[r.idx],
                                     fields[r.idx]),
                 status |-> r.status],
             !.idx = r.idx + 1]
  /\ rpc' = IF r.idx + 1 > num_fields THEN "rs_seq_end" ELSE "rs_status"
  /\ UNCHANGED << mem, meta, ret, delivered, opts_used, writer_side >>

\* _read_from_slot: load seq_end and compare.  A torn read returns None to
\* _read_single (which gives up or tries again) or to _read_fifo (which
\* always tries again); a consistent read goes on to the reset loop, to the
\* counter update of the ring, or returns.
RSeqEnd ==
  /\ rpc = "rs_seq_end"
  /\ IF r.seq_begin # mem[r.slot_idx].seq_end
       THEN IF is_fifo
              THEN /\ rpc' = "rf_get_w"
                   /\ UNCHANGED << r, ret, delivered >>
              ELSE GiveUp("rs_seq_begin")
     ELSE IF r.reset_modified
       THEN /\ rpc' = "rr_load"
            /\ r' = [r EXCEPT !.idx = 1]
            /\ UNCHANGED << ret, delivered >>
     ELSE IF is_fifo
       THEN /\ rpc' = "rf_set_w"
            /\ UNCHANGED << r, ret, delivered >>
     ELSE RReturnData
  /\ UNCHANGED << mem, meta, opts_used, writer_side >>

\* _read_from_slot, reset loop: load the status byte of field idx
RResetLoad ==
  /\ rpc = "rr_load"
  /\ r' = [r EXCEPT !.status = mem[r.slot_idx].status[r.idx]]
  /\ rpc' = "rr_store"
  /\ UNCHANGED << mem, meta, ret, delivered, opts_used, writer_side >>

\* _read_from_slot, reset loop: store the status byte of field idx with
\* MODIFIED cleared; after the last field read() returns
RResetStore ==
  /\ rpc = "rr_store"
  /\ mem' = [mem EXCEPT ![r.slot_idx].status[r.idx] = StatusReset(r.status)]
  /\ IF r.idx + 1 > num_fields
       THEN RReturnData
       ELSE /\ r' = [r EXCEPT !.idx = r.idx + 1]
            /\ rpc' = "rr_load"
            /\ UNCHANGED << ret, delivered >>
  /\ UNCHANGED << meta, opts_used, writer_side >>

\* the counters _read_fifo computes from the ones it loaded
RAdvanced ==
  ConsumeAdvance([write_idx |-> r.write_idx, read_idx |-> r.read_idx,
                  count |-> r.count])

\* _set_fifo_metadata: store write_idx
RSetWriteIdx ==
  /\ rpc = "rf_set_w"
  /\ meta' = [meta EXCEPT !.write_idx = RAdvanced.write_idx]
  /\ rpc' = "rf_set_r"
  /\ UNCHANGED << mem, r, ret, delivered, opts_used, writer_side >>

\* _set_fifo_metadata: store read_idx
RSetReadIdx ==
  /\ rpc = "rf_set_r"
  /\ meta' = [meta EXCEPT !.read_idx = RAdvanced.read_idx]
  /\ rpc' = "rf_set_c"
  /\ UNCHANGED << mem, r, ret, delivered, opts_used, writer_side >>

\* _set_fifo_metadata: store count; read() returns the record
RSetCount ==
  /\ rpc = "rf_set_c"
  /\ meta' = [meta EXCEPT !.count = RAdvanced.count]
  /\ RReturnData
  /\ UNCHANGED << mem, opts_used, writer_side >>

WriterNext ==
  \/ WCallWrite \/ WCallFinalize
  \/ WGetWriteIdx \/ WGetReadIdx \/ WGetCount
  \/ WReadSeq \/ WSeqBegin \/ WBody \/ WStatusLoad \/ WStatusStore \/ WSeqEnd
  \/ WSetWriteIdx \/ WSetReadIdx \/ WSetCount

ReaderNext ==
  \/ RCall
  \/ RGetWriteIdx \/ RGetReadIdx \/ RGetCount
  \/ RSeqBegin \/ RStatus \/ RBody \/ RSeqEnd
  \/ RResetLoad \/ RResetStore
  \/ RSetWriteIdx \/ RSetReadIdx \/ RSetCount

ConcNext == WriterNext \/ ReaderNext

ConcSpec == Init /\ [][ConcNext]_vars


(***************************************************************************)
(* CodecSpec: one value of each field kind goes through the write of a     *)
(* field (_write_to_slot, lines 712-735) and then through the read of it   *)
(* (_read_from_slot, lines 869-882).                                       *)
(***************************************************************************)
\* the field kinds of the tests' dataclasses: ScalarData (f: float, i: int,
\* b: bool), StringData (msg: str[n]) and Array2DData (matrix: int32[r,c])
CodecFields ==
  << [name |-> "f", is_scalar |-> TRUE, is_string |-> FALSE,
      is_array |-> FALSE, field_type |-> "float", string_max_chars |-> 0,
      array_shape |-> << >>],
     [name |-> "i", is_scalar |-> TRUE, is_string |-> FALSE,
      is_array |-> FALSE, field_type |-> "int", string_max_chars |-> 0,
      array_shape |-> << >>],
     [name |-> "b", is_scalar |-> TRUE, is_string |-> FALSE,
      is_array |-> FALSE, field_type |-> "bool", string_max_chars |-> 0,
      array_shape |-> << >>],
     [name |-> "msg", is_scalar |-> FALSE, is_string |-> TRUE,
      is_array |-> FALSE, field_type |-> "str", string_max_chars |-> MaxChars,
      array_shape |-> << >>],
     [name |-> "matrix", is_scalar |-> FALSE, is_string |-> FALSE,
      is_array |-> TRUE, field_type |-> "int32", string_max_chars |-> 0,
      array_shape |-> << ArrayLen, 1 >>] >>

\* _write_to_slot: write the value by field kind
WriteValueOf(body, value, field_info) ==
  IF field_info.is_scalar
    THEN [body |-> write_scalar_as(body, value, field_info.field_type),
          truncated |-> FALSE]
  ELSE IF field_info.is_string THEN write_string(body, value, field_info)
  ELSE write_array(body, value, field_info)

\* _read_from_slot: read the value by field kind
ReadValueOf(body, field_info) ==
  IF field_info.is_scalar THEN read_scalar_as(body, field_info.field_type)
  ELSE IF field_info.is_string THEN read_string(body, field_info)
  ELSE read_array(body, field_info)

\* code points with a UTF-8 encoding of 1, 2, 3 and 4 bytes
CodePoints == {97, 233, 8364, 128512}

\* the strings of up to MaxChars + 1 code points
Strings == UNION {[1..n -> CodePoints] : n \in 0..(MaxChars + 1)}

\* the array shapes of up to two dimensions with at most ArrayLen + 1
\* elements, the 0-dimensional one included
Shapes ==
  {<< >>} \cup {<< a >> : a \in 0..(ArrayLen + 1)}
  \cup {sh \in (0..(ArrayLen + 1)) \X (0..(ArrayLen + 1)) :
          sh[1] * sh[2] <= ArrayLen + 1}

\* the int32 arrays of these shapes over two element values
Arrays ==
  UNION {{[shape |-> sh, flat |-> f] : f \in [1..Prod(sh) -> {-1, 2}]} :
           sh \in Shapes}

\* the values published to field k
ValuesOf(k) ==
  IF CodecFields[k].field_type = "float" THEN {0, 1, 2}
  ELSE IF CodecFields[k].field_type = "int"
    THEN {-42, 0, INT32_MAX, (-INT32_MAX) - 1}
  ELSE IF CodecFields[k].field_type = "bool" THEN BOOLEAN
  ELSE IF CodecFields[k].is_string THEN Strings
  ELSE Arrays

\* the bodies field k can have before the write: zero-filled memory, and
\* for a string also the body an earlier, longer string left
BodiesOf(k) ==
  LET field_info == CodecFields[k]
  IN IF field_info.is_string
       THEN {ZeroBody(field_info),
             write_string(ZeroBody(field_info), LongString, field_info).body}
     ELSE IF field_info.is_array
       THEN {[i \in 1..Prod(field_info.array_shape) |-> ToBytes(0, 4)]}
     ELSE IF field_info.field_type = "int" THEN {ToBytes(0, 4)}
     ELSE {0}

\* the status bytes over the three defined bits
StatusBytes == 0..(MASK_TRUNCATED + MASK_UNWRITTEN + MASK_MODIFIED)

CodecInit ==
  /\ RegionInit
  /\ slots = 1
  /\ \E k \in DOMAIN CodecFields :
       \E value \in ValuesOf(k), body \in BodiesOf(k), status \in StatusBytes :
         codec = [NoCodec EXCEPT !.phase = "input", !.field = k,
                                 !.value = value, !.body = body,
                                 !.status = status]
  /\ layout = NoLayout

\* the loop body of _write_to_slot for a field that is in the update
CodecWrite ==
  /\ codec.phase = "input"
  /\ LET wr == WriteValueOf(codec.body, codec.value, CodecFields[codec.field])
     IN codec' = [codec EXCEPT !.phase = "written", !.body = wr.body,
                               !.truncated = wr.truncated,
                               !.status = StatusWritten(@, wr.truncated)]
  /\ UNCHANGED << slots, mem, meta, write_buffer, write_buffer_dirty, ret,
                  published, snapshots, wrote, delivered, opts_used, ncommits,
                  conc_vars, layout >>

\* the loop body of _read_from_slot: ValueWithStatus(value, status)
CodecRead ==
  /\ codec.phase = "written"
  /\ codec' = [codec EXCEPT !.phase = "read",
                            !.out = ReadValueOf(codec.body,
                                                CodecFields[codec.field])]
  /\ UNCHANGED << slots, mem, meta, write_buffer, write_buffer_dirty, ret,
                  published, snapshots, wrote, delivered, opts_used, ncommits,
                  conc_vars, layout >>

CodecNext == CodecWrite \/ CodecRead

CodecSpec == CodecInit /\ [][CodecNext]_vars


(***************************************************************************)
(* RaiseSpec: whole operations, with updates that hold a string that       *)
(* cannot be encoded.                                                      *)
(***************************************************************************)
\* a lone surrogate, "\ud800"
Surrogate == << 55296 >>

BadUpdates == { [name |-> Surrogate], [position |-> 2, name |-> Surrogate] }

\* write(**kwargs) with a value that cannot be encoded: staged on a ring; on
\* a single slot _write_to_slot raises
WriteRaises(kwargs) ==
  IF is_fifo
    THEN /\ write_buffer' = BufferUpdate(write_buffer, kwargs)
         /\ write_buffer_dirty' = TRUE
         /\ ret' = [NoRet EXCEPT !.op = "write", !.result = "staged"]
         /\ UNCHANGED << mem, meta, ncommits >>
    ELSE /\ ncommits < MaxWrites
         /\ ncommits' = ncommits + 1
         /\ mem' = [mem EXCEPT ![0] = write_to_slot_raises(mem[0], kwargs)]
         /\ ret' = [NoRet EXCEPT !.op = "write", !.result = "EncodeError",
                                 !.kwargs = kwargs]
         /\ UNCHANGED << meta, write_buffer, write_buffer_dirty >>

\* finalize() with a staged value that cannot be encoded: _write_to_slot
\* raises, the counters are not stored and the staging buffer is not cleared
FinalizeRaises ==
  LET slot_idx == meta.write_idx % slots
  IN /\ is_fifo /\ write_buffer_dirty
     /\ Raising(write_buffer) # {}
     /\ ncommits < MaxWrites
     /\ ncommits' = ncommits + 1
     /\ mem' = [mem EXCEPT
                  ![slot_idx] = write_to_slot_raises(mem[slot_idx],
                                                     write_buffer)]
     /\ ret' = [NoRet EXCEPT !.op = "finalize", !.result = "EncodeError",
                             !.kwargs = write_buffer, !.slot_idx = slot_idx]
     /\ UNCHANGED << meta, write_buffer, write_buffer_dirty >>

DoWriteRaises ==
  /\ \E kwargs \in BadUpdates : WriteRaises(kwargs)
  /\ UNCHANGED << fixed_vars, published, snapshots, wrote, delivered,
                  opts_used, conc_vars >>

DoFinalizeGood ==
  /\ Raising(write_buffer) = {}
  /\ DoFinalize

DoFinalizeRaises ==
  /\ FinalizeRaises
  /\ UNCHANGED << fixed_vars, published, snapshots, wrote, delivered,
                  opts_used, conc_vars >>

RaiseNext ==
  DoWrite \/ DoWriteRaises \/ DoFinalizeGood \/ DoFinalizeRaises \/ DoRead

RaiseSpec == Init /\ [][RaiseNext]_vars

(***************************************************************************)
(* PollSpec: the polling loop of read().  The reader takes one step per    *)
(* pass of the "while True" loop of _read_single, and two per pass of the  *)
(* loop of _read_fifo, the load of the counters and the slot read with     *)
(* what follows it; the writer takes two steps per slot write, the store   *)
(* of seq_begin and the rest, so that a pass can find a slot whose write   *)
(* is in progress (or was given up there: nothing makes the writer take    *)
(* its second step).                                                       *)
(***************************************************************************)
\* the most passes of the loop one call makes in the model
MaxPolls == 2
\* the most slot writes the writer starts beside the polling reader
MaxPollWrites == 4

\* the start of a slot write: seq = seq_begin + 1 is stored to seq_begin
\* (_write_to_slot, lines 699-703)
BeginSlotWrite(slot_idx, data) ==
  /\ ncommits < MaxPollWrites
  /\ ncommits' = ncommits + 1
  /\ w' = [w EXCEPT !.data = data, !.slot_idx = slot_idx,
                    !.seq = mem[slot_idx].seq_begin + 1,
                    !.write_idx = meta.write_idx,
                    !.read_idx = meta.read_idx,
                    !.count = meta.count]
  /\ mem' = [mem EXCEPT ![slot_idx].seq_begin = mem[slot_idx].seq_begin + 1]
  /\ wpc' = "ws_fields"

\* the keyword arguments the writer uses beside the polling reader: it
\* numbers its messages, as the writers of the tests do (position=float(i),
\* name=msg), and sends the number alone or with a string that is too long
PollUpdates ==
  { [position |-> ncommits + 1],
    [position |-> ncommits + 1, name |-> LongString] }

\* write(**kwargs): staged on a ring; on a single slot _write_to_slot(0,
\* kwargs) starts
PWrite ==
  /\ wpc = "idle"
  /\ \E kwargs \in PollUpdates :
       IF is_fifo
         THEN /\ write_buffer' = BufferUpdate(write_buffer, kwargs)
              /\ write_buffer_dirty' = TRUE
              /\ ret' = [NoRet EXCEPT !.op = "write", !.result = "staged"]
              /\ UNCHANGED << mem, wpc, w, ncommits >>
         ELSE /\ BeginSlotWrite(0, kwargs)
              /\ UNCHANGED << write_buffer, write_buffer_dirty, ret >>
  /\ UNCHANGED << fixed_vars, meta, published, snapshots, wrote, delivered,
                  opts_used, rpc, r >>

\* finalize() with a dirty staging buffer on a ring: the counters are loaded
\* and _write_to_slot(write_idx % slots, write_buffer) starts
PFinalize ==
  /\ wpc = "idle"
  /\ is_fifo /\ write_buffer_dirty
  /\ BeginSlotWrite(meta.write_idx % slots, write_buffer)
  /\ UNCHANGED << fixed_vars, meta, write_buffer, write_buffer_dirty, ret,
                  published, snapshots, wrote, delivered, opts_used, rpc, r >>

\* the rest of the slot write: the fields, their status bytes and seq_end
\* (lines 709-744); finalize() then stores the counters it computed from the
\* ones it loaded and clears the staging buffer (lines 524-538)
PComplete ==
  /\ wpc = "ws_fields"
  /\ LET new == [WriteFields(mem[w.slot_idx], 1, w.data)
                   EXCEPT !.seq_end = w.seq]
     IN /\ mem' = [mem EXCEPT ![w.slot_idx] = new]
        /\ snapshots' = [snapshots EXCEPT ![w.slot_idx] = << SlotRecord(new) >>]
  /\ IF is_fifo
       THEN /\ meta' = WAdvanced
            /\ write_buffer' = << >>
            /\ write_buffer_dirty' = FALSE
            /\ ret' = [NoRet EXCEPT !.op = "finalize", !.result = "committed",
                                    !.kwargs = w.data, !.slot_idx = w.slot_idx,
                                    !.seq = w.seq]
       ELSE /\ ret' = [NoRet EXCEPT !.op = "write", !.result = "committed",
                                    !.kwargs = w.data, !.slot_idx = w.slot_idx,
                                    !.seq = w.seq]
            /\ UNCHANGED << meta, write_buffer, write_buffer_dirty >>
  /\ wpc' = "idle"
  /\ w' = WriterLocals0
  /\ UNCHANGED << fixed_vars, published, wrote, delivered, opts_used,
                  ncommits, rpc, r >>

\* read(timeout, latest, reset_modified): the mode check, then start_time =
\* time.time() in _read_fifo or _read_single
PCall ==
  /\ rpc = "idle"
  /\ \E timeout \in Timeouts, latest \in BOOLEAN, reset_modified \in BOOLEAN :
       IF reset_modified /\ is_fifo
         THEN /\ ret' = [NoRet EXCEPT !.op = "read", !.result = "ValueError",
                                      !.latest = latest,
                                      !.reset_modified = reset_modified]
              /\ UNCHANGED << rpc, r >>
         ELSE /\ r' = [ReaderLocals0 EXCEPT
                         !.timeout = timeout,
                         !.latest = (is_fifo /\ latest),
                         !.reset_modified = reset_modified]
              /\ rpc' = "poll"
              /\ UNCHANGED ret
  /\ UNCHANGED << mem, meta, delivered, opts_used, writer_side >>

\* time passes: from now on (time.time() - start_time) >= timeout
PTick ==
  /\ rpc \in {"poll", "slot"}
  /\ r.timeout > 0 /\ ~r.expired
  /\ r' = [r EXCEPT !.expired = TRUE]
  /\ UNCHANGED << mem, meta, ret, rpc, delivered, opts_used, writer_side >>

\* faulty variant of TimedOut that waits for the deadline with timeout 0 too
TimedOut_OnlyExpired == r.expired

\* the test "timeout == 0 or (time.time() - start_time) >= timeout"
TimedOut == r.timeout = 0 \/ r.expired

\* time.sleep(0.0001) before the next pass of the loop, which starts with
\* the local variables m of this pass
PollAgain(m) ==
  /\ r.polls < MaxPolls
  /\ r' = [r EXCEPT !.polls = r.polls + 1, !.write_idx = m.write_idx,
                    !.read_idx = m.read_idx, !.count = m.count,
                    !.slot_idx = m.read_idx % slots]
  /\ UNCHANGED << ret, delivered >>

\* the call returns a record read from slot slot_idx
PollReturnData(slot_idx, got) ==
  /\ rpc' = "idle"
  /\ r' = ReaderLocals0
  /\ ret' = [NoRet EXCEPT !.op = "read", !.result = "data",
                          !.data = got.data, !.slot_idx = slot_idx,
                          !.seq = got.seq, !.latest = r.latest,
                          !.reset_modified = r.reset_modified,
                          !.polls = r.polls]
  /\ UNCHANGED delivered

\* one pass of the loop of _read_single (lines 807-817)
poll_single ==
  LET got == read_from_slot(mem[0], r.reset_modified)
  IN /\ IF got.ok
          THEN /\ mem' = [mem EXCEPT ![0] = got.slot]
               /\ PollReturnData(0, got)
        ELSE IF TimedOut
          THEN RReturnNone /\ UNCHANGED mem
        ELSE PollAgain(meta) /\ UNCHANGED << mem, rpc >>
     /\ UNCHANGED meta

\* _get_fifo_metadata at the top of each pass of the loop of _read_fifo
PollLoad == meta

\* the top of one pass of the loop of _read_fifo (lines 823-839): the
\* counters are loaded; an empty ring gives up or sleeps; otherwise latest is
\* applied to the local counters and slot_idx = read_idx % slots
poll_fifo ==
  LET m0 == PollLoad
  IN /\ IF m0.count = 0
          THEN IF TimedOut THEN RReturnNone
               ELSE PollAgain(m0) /\ UNCHANGED rpc
          ELSE LET m == LatestAdjust(m0, r.latest)
               IN /\ r' = [r EXCEPT !.write_idx = m.write_idx,
                                    !.read_idx = m.read_idx,
                                    !.count = m.count,
                                    !.slot_idx = m.read_idx % slots]
                  /\ rpc' = "slot"
                  /\ UNCHANGED << ret, delivered >>
     /\ UNCHANGED << mem, meta >>

\* the local counters of the pass
PollLocals ==
  [write_idx |-> r.write_idx, read_idx |-> r.read_idx, count |-> r.count]

\* faulty variant of poll_slot that stores the counters before it looks at
\* what the slot read returned
poll_slot_StoresFirst ==
  LET got == read_from_slot(mem[r.slot_idx], FALSE)
  IN /\ meta' = ConsumeAdvance(PollLocals)
     /\ IF got.ok THEN PollReturnData(r.slot_idx, got)
                  ELSE /\ PollAgain(PollLocals)
                       /\ rpc' = "poll"
     /\ UNCHANGED mem

\* the rest of the pass (lines 840-852): the slot read; a torn slot sleeps
\* and starts over, whatever the timeout; a consistent one stores the
\* advanced local counters and returns the record
poll_slot ==
  LET got == read_from_slot(mem[r.slot_idx], FALSE)
  IN /\ IF got.ok
          THEN /\ meta' = ConsumeAdvance(PollLocals)
               /\ PollReturnData(r.slot_idx, got)
          ELSE /\ PollAgain(PollLocals)
               /\ rpc' = "poll"
               /\ UNCHANGED meta
     /\ UNCHANGED mem

PPoll ==
  /\ rpc = "poll"
  /\ IF is_fifo THEN poll_fifo ELSE poll_single
  /\ UNCHANGED << opts_used, writer_side >>

PSlot ==
  /\ rpc = "slot"
  /\ poll_slot
  /\ UNCHANGED << opts_used, writer_side >>

PollNext ==
  PWrite \/ PFinalize \/ PComplete \/ PCall \/ PTick \/ PPoll \/ PSlot

PollSpec == Init /\ [][PollNext]_vars


(***************************************************************************)
(* LayoutSpec: the layout compiler (_SharedMemoryLayout, _FieldInfo) lays  *)
(* out a schema, and the operations of a handle store to byte addresses    *)
(* of the region that they compute from the layout.                        *)
(***************************************************************************)
\* the number of fields of the longest schema that is laid out
MaxFields == 2

\* np.dtype(...).itemsize of the dtype parse_array yields: a dtype string
\* that dtype_map does not hold is taken as float64
ItemSize(dtype_str) ==
  IF dtype_str \in {"int8", "uint8", "bool"} THEN 1
  ELSE IF dtype_str \in {"int16", "uint16"} THEN 2
  ELSE IF dtype_str \in {"float32", "int32", "uint32"} THEN 4
  ELSE 8

\* the annotations of a field: float, int, bool, str[n] (n = 0 included) and
\* dtype[shape]
FieldTypes ==
  {[kind |-> k, chars |-> 0, dtype |-> "none", shape |-> << >>] :
     k \in {"float", "int", "bool"}}
  \cup {[kind |-> "str", chars |-> n, dtype |-> "none", shape |-> << >>] :
          n \in 0..MaxChars}
  \cup {[kind |-> "array", chars |-> 0, dtype |-> d, shape |-> sh] :
          d \in {"uint8", "float16"},
          sh \in {<< 0 >>, << ArrayLen >>, << ArrayLen, 2 >>}}

\* the dataclasses of up to MaxFields fields, the empty one included
Schemas == UNION {[1..n -> FieldTypes] : n \in 0..MaxFields}

\* _FieldInfo._parse_type: the kind and the size of a field.  parse_string
\* yields the declared character count, and a count of 0 is not taken for a
\* string; an annotation that is no string, array or scalar raises ValueError
parse_type(field_type) ==
  LET string_chars == IF field_type.kind = "str" THEN field_type.chars ELSE 0
      info == [ok |-> TRUE, field_type |-> field_type.kind,
               is_scalar |-> FALSE, is_string |-> FALSE, is_array |-> FALSE,
               string_max_chars |-> 0, array_dtype |-> "none",
               array_shape |-> << >>, size |-> 0, offset |-> 0]
  IN IF string_chars # 0
       THEN [info EXCEPT !.is_string = TRUE,
                         !.string_max_chars = string_chars,
                         !.size = 4 + string_chars * 4]
     ELSE IF field_type.kind = "array"
       THEN [info EXCEPT !.is_array = TRUE,
                         !.array_dtype = field_type.dtype,
                         !.array_shape = field_type.shape,
                         !.size = Prod(field_type.shape)
                                  * ItemSize(field_type.dtype)]
     ELSE IF field_type.kind \in {"float", "int", "bool"}
       THEN [info EXCEPT !.is_scalar = TRUE,
                         !.size = IF field_type.kind = "float" THEN 8
                                  ELSE IF field_type.kind = "int" THEN 4
                                  ELSE 1]
     ELSE [info EXCEPT !.ok = FALSE]

\* (offset + 7) // 8 * 8
Align8(offset) == ((offset + 7) \div 8) * 8

\* _calculate_layout, the loop over the fields from field idx on: each field
\* gets the running offset, which then moves on by the field's size
RECURSIVE AssignOffsets(_, _, _)
AssignOffsets(infos, idx, offset) ==
  IF idx > Len(infos) THEN [fields |-> infos, offset |-> offset]
  ELSE AssignOffsets([infos EXCEPT ![idx].offset = offset], idx + 1,
                     offset + infos[idx].size)

\* faulty variant of calculate_layout that leaves no room for the footer
calculate_layout_NoFooter(infos) ==
  LET laid == AssignOffsets(infos, 1, Align8(8 + Len(infos)))
  IN [fields |-> laid.fields, total_size |-> Align8(laid.offset)]

\* _calculate_layout: the header is seq_begin and one status byte per field,
\* aligned to 8; the fields follow; the footer takes 8 bytes; the total is
\* aligned to 8
calculate_layout(infos) ==
  LET laid == AssignOffsets(infos, 1, Align8(8 + Len(infos)))
  IN [fields |-> laid.fields, total_size |-> Align8(laid.offset + 8)]

\* __init__: metadata_size, which is also _data_offset
metadata_size == IF is_fifo THEN 24 ELSE 0

\* __init__: total_size of the region
region_size == metadata_size + layout.total_size * slots

\* faulty variant of get_slot_offset that leaves out the data offset
get_slot_offset_NoMetadata(slot_idx) == slot_idx * layout.total_size

\* _get_slot_offset
get_slot_offset(slot_idx) == metadata_size + slot_idx * layout.total_size

\* the addresses _write_uint64(offset, ...) stores to
Uint64At(offset) == offset..(offset + 7)

\* the addresses the write of a value to a field stores to: _write_scalar
\* by field type, _write_string the length and the encoded bytes of the
\* characters it keeps, _write_array every element of the declared shape
FieldStores(field_offset, field_info, value) ==
  IF field_info.is_scalar
    THEN field_offset..(field_offset + field_info.size - 1)
  ELSE IF field_info.is_string
    THEN LET kept == IF Len(value) > field_info.string_max_chars
                       THEN SubSeq(value, 1, field_info.string_max_chars)
                       ELSE value
             encoded == EncodeUtf8(kept)
         IN (field_offset..(field_offset + 3))
            \cup ((field_offset + 4)..(field_offset + 4 + Len(encoded) - 1))
  ELSE field_offset..(field_offset + Prod(field_info.array_shape)
                                     * ItemSize(field_info.array_dtype) - 1)

\* the addresses _write_to_slot stores to: seq_begin, for every field its
\* status byte and, if the update holds the field, its value, and seq_end.
\* The update gives the fields in names the string value (a string field
\* encodes it; the stores of the other kinds do not depend on the value)
write_to_slot_stores(slot_idx, names, value) ==
  LET offset == get_slot_offset(slot_idx)
      status_offset == offset + 8
      seq_end_offset == offset + layout.total_size - 8
  IN Uint64At(offset)
     \cup {status_offset + (i - 1) : i \in DOMAIN layout.fields}
     \cup UNION {FieldStores(offset + layout.fields[i].offset,
                             layout.fields[i], value) : i \in names}
     \cup Uint64At(seq_end_offset)

\* the addresses _initialize_slot stores to
initialize_slot_stores(slot_idx) ==
  LET offset == get_slot_offset(slot_idx)
  IN Uint64At(offset)
     \cup {offset + 8 + (i - 1) : i \in DOMAIN layout.fields}
     \cup Uint64At(offset + layout.total_size - 8)

\* the addresses _set_fifo_metadata stores to: none on a single slot
set_fifo_metadata_stores ==
  IF is_fifo THEN Uint64At(0) \cup Uint64At(8) \cup Uint64At(16) ELSE {}

LayoutInit ==
  /\ RegionInit
  /\ codec = NoCodec
  /\ \E types \in Schemas :
       layout = [NoLayout EXCEPT !.phase = "schema", !.types = types]

\* _SharedMemoryLayout.__init__: _analyze_fields parses every annotation,
\* _calculate_layout assigns the offsets
LCompile ==
  /\ layout.phase = "schema"
  /\ LET infos == [i \in DOMAIN layout.types |-> parse_type(layout.types[i])]
     IN IF \E i \in DOMAIN infos : ~infos[i].ok
          THEN layout' = [layout EXCEPT !.phase = "ValueError"]
          ELSE layout' = [layout EXCEPT
                            !.phase = "ready",
                            !.fields = calculate_layout(infos).fields,
                            !.total_size = calculate_layout(infos).total_size]
  /\ UNCHANGED << slots, mem, meta, write_buffer, write_buffer_dirty, ret,
                  published, snapshots, wrote, delivered, opts_used, ncommits,
                  conc_vars, codec >>

\* an operation of a handle on the region, of which the addresses it stores
\* to are kept: _initialize_slot, _write_to_slot or _set_fifo_metadata
LStore(op, slot_idx, stores) ==
  /\ layout.phase = "ready"
  /\ layout' = [layout EXCEPT !.op = op, !.slot_idx = slot_idx,
                              !.stores = stores]
  /\ UNCHANGED << slots, mem, meta, write_buffer, write_buffer_dirty, ret,
                  published, snapshots, wrote, delivered, opts_used, ncommits,
                  conc_vars, codec >>

LInitializeSlot ==
  \E slot_idx \in SlotIdx :
    LStore("initialize_slot", slot_idx, initialize_slot_stores(slot_idx))

\* the string of the update is empty, or has MaxChars + 1 code points whose
\* UTF-8 encoding takes four bytes each
LWriteToSlot ==
  \E slot_idx \in SlotIdx, names \in SUBSET DOMAIN layout.fields,
     value \in {<< >>, [i \in 1..(MaxChars + 1) |-> 128512]} :
    LStore("write_to_slot", slot_idx,
           write_to_slot_stores(slot_idx, names, value))

LSetFifoMetadata == LStore("set_fifo_metadata", 0, set_fifo_metadata_stores)

LayoutNext == LCompile \/ LInitializeSlot \/ LWriteToSlot \/ LSetFifoMetadata

LayoutSpec == LayoutInit /\ [][LayoutNext]_vars


(***************************************************************************)
(* Helpers of the properties.                                              *)
(***************************************************************************)
Max(a, b) == IF a >= b THEN a ELSE b

Range(f) == {f[x] : x \in DOMAIN f}

\* the (slot, seq) a call reports in ret
RetId(x) == [slot_idx |-> x.slot_idx, seq |-> x.seq]

\* the number of slot writes to slot s so far
WritesTo(s) == Cardinality({k \in 1..Len(published) : published[k].slot_idx = s})

\* this step completes a slot write (write() of a single slot, or finalize())
CommitStep == ret'.result = "committed" /\ ncommits' = ncommits + 1

\* this step is a read() that returned a record or None, without the
\* reset_modified option
PlainReadStep ==
  ret'.op = "read" /\ ret'.result \in {"data", "None"} /\ ~ret'.reset_modified

(***************************************************************************)
(* C1 (ConcSpec).  No torn record: while no read has used reset_modified,  *)
(* every record a read returns equals, in every field value and every      *)
(* status byte, the slot as one completed write (or the initialization)    *)
(* left it.                                                                *)
(***************************************************************************)
C1_NoTornRecord ==
  (ret.op = "read" /\ ret.result = "data" /\ "reset_modified" \notin opts_used)
    => ret.data \in Range(snapshots[ret.slot_idx])

(***************************************************************************)
(* C2 (ConcSpec).  Ring, one producer and one consumer that never uses     *)
(* latest: every record the consumer returns is a published message that   *)
(* comes later in publish order than the record returned before it (so no  *)
(* message is returned twice and none out of order).                       *)
(***************************************************************************)
C2_InOrderNoDuplicates ==
  [][ ( /\ is_fifo
        /\ "latest" \notin opts_used'
        /\ rpc # "idle" /\ rpc' = "idle"
        /\ ret'.op = "read" /\ ret'.result = "data" )
      => LET PubIndexAfter(d) ==
               IF \E k \in 1..Len(published') : published'[k] = d
                 THEN CHOOSE k \in 1..Len(published') : published'[k] = d
                 ELSE 0
         IN PubIndexAfter(delivered') > PubIndexAfter(delivered) ]_vars

(***************************************************************************)
(* C3 (Spec).  Ring, whole operations: a consume without latest returns    *)
(* the oldest published message that was neither delivered or skipped by   *)
(* an earlier consume nor overwritten (its record as the finalize left     *)
(* it), and returns no data exactly when there is no such message.         *)
(***************************************************************************)
C3_ConsumeReturnsOldestPending ==
  [][ (is_fifo /\ PlainReadStep /\ ~ret'.latest)
      => LET K == Len(published)
             expected == Max(PubIndex(delivered) + 1, K - slots + 1)
         IN IF expected > K
              THEN ret'.result = "None"
              ELSE /\ ret'.result = "data"
                   /\ RetId(ret') = published[expected]
                   /\ ret'.data = snapshots[ret'.slot_idx][1] ]_vars

\* an overrun happened and a consume returned the oldest surviving message
C3_Witness ==
  /\ is_fifo
  /\ ret.op = "read" /\ ret.result = "data" /\ ~ret.latest
  /\ Len(published) > slots
  /\ PubIndex(delivered) = Len(published) - slots + 1

(***************************************************************************)
(* C4 (Spec).  A finalize on a full ring (count == slot_count) keeps       *)
(* count, advances read_index by one and overwrites the slot of the oldest *)
(* pending message, not of the newest; the message it wrote is the last of *)
(* the pending ones.                                                       *)
(***************************************************************************)
C4_OverrunDropsOldest ==
  [][ (is_fifo /\ ret'.op = "finalize" /\ CommitStep /\ meta.count = slots)
      => /\ meta'.count = slots
         /\ meta'.read_idx = meta.read_idx + 1
         /\ ret'.slot_idx = meta.read_idx % slots
         /\ ret'.slot_idx # (meta.write_idx - 1) % slots
         /\ PubIndex(RetId([slot_idx |-> ret'.slot_idx,
                            seq |-> mem[ret'.slot_idx].seq_begin]))
              = Len(published) - slots + 1
         /\ (meta'.write_idx - 1) % slots = ret'.slot_idx
         /\ published'[Len(published')] = RetId(ret') ]_vars

\* a finalize on a full ring has completed
C4_Witness ==
  /\ is_fifo
  /\ ret.op = "finalize" /\ ret.result = "committed"
  /\ Len(published) > slots
  /\ meta.count = slots /\ meta.read_idx >= 1

(***************************************************************************)
(* C5 (Spec).  After any sequence of completed publishes every slot has    *)
(* seq_begin == seq_end, both equal to the number of publishes to it.      *)
(***************************************************************************)
C5_SeqCountersCountPublishes ==
  \A s \in SlotIdx :
    /\ mem[s].seq_begin = mem[s].seq_end
    /\ mem[s].seq_begin = WritesTo(s)

\* some slot has been published to twice
C5_Witness == \E s \in SlotIdx : mem[s].seq_end = 2 /\ WritesTo(s) = 2

(***************************************************************************)
(* C6 (Spec).  After a completed publish of the fields F to a slot,        *)
(* MODIFIED is set in that slot for exactly the fields of F.               *)
(***************************************************************************)
C6_ModifiedExactlyPublished ==
  (ret.result = "committed")
    => \A i \in FieldIdx :
         is_modified(mem[ret.slot_idx].status[i])
           <=> (fields[i].name \in DOMAIN ret.kwargs)

\* a publish of the string alone, to a slot whose scalar was published (and
\* so had MODIFIED set) before
C6_Witness ==
  /\ ret.result = "committed"
  /\ DOMAIN ret.kwargs = {"name"}
  /\ ~is_unwritten(mem[ret.slot_idx].status[1])
  /\ ~is_modified(mem[ret.slot_idx].status[1])

(***************************************************************************)
(* C7 (Spec).  In every step and for every slot and field, UNWRITTEN is    *)
(* set afterwards iff it was set before and the step is not a publish to   *)
(* that slot that includes the field: the first publish of the field       *)
(* clears it, nothing (no consume, no reset_modified) sets it again.       *)
(***************************************************************************)
C7_UnwrittenClearedOnceForAll ==
  [][ \A s \in SlotIdx, i \in FieldIdx :
        is_unwritten(mem'[s].status[i])
          <=> ( /\ is_unwritten(mem[s].status[i])
                /\ ~( /\ CommitStep
                      /\ ret'.slot_idx = s
                      /\ fields[i].name \in DOMAIN ret'.kwargs ) ) ]_vars

\* a field published earlier is still not UNWRITTEN after a later publish
\* without it and a consume with reset_modified
C7_Witness ==
  /\ ~is_fifo
  /\ ret.op = "read" /\ ret.reset_modified /\ ret.result = "data"
  /\ ret.seq >= 2
  /\ ~is_unwritten(mem[0].status[1]) /\ is_unwritten(mem[0].status[2])


\* the status bytes and the sequence counters of every slot are unchanged
StatusAndSeqUnchanged ==
  \A s \in SlotIdx :
    /\ mem'[s].status = mem[s].status
    /\ mem'[s].seq_begin = mem[s].seq_begin
    /\ mem'[s].seq_end = mem[s].seq_end

\* this read directly follows a read without reset_modified that returned a
\* record: the two are consecutive, with no publish in between
FollowsPlainRead ==
  ret.op = "read" /\ ret.result = "data" /\ ~ret.reset_modified

(***************************************************************************)
(* C8 as stated (Spec).  A consume without reset_modified changes no       *)
(* status byte, no sequence counter and no ring counter, and consecutive   *)
(* such consumes return equal records.                                     *)
(***************************************************************************)
C8_Original ==
  [][ PlainReadStep
      => /\ StatusAndSeqUnchanged
         /\ meta' = meta
         /\ (FollowsPlainRead /\ ret'.result = "data")
              => ret'.data = ret.data ]_vars

(***************************************************************************)
(* C8 as amended (Spec).  A consume without reset_modified changes no      *)
(* status byte and no sequence counter.  On a single slot it changes no    *)
(* counter either, and consecutive such consumes return equal records.  On *)
(* a ring a consume that returns a record leaves write_index alone and     *)
(* moves read_index and count: to read_index + 1 and count - 1, or with    *)
(* latest to write_index and 0; a consume that returns no data changes no  *)
(* counter.                                                                *)
(***************************************************************************)
C8_ReadOnlyConsume ==
  [][ PlainReadStep
      => /\ StatusAndSeqUnchanged
         /\ ~is_fifo
              => /\ meta' = meta
                 /\ (FollowsPlainRead /\ ret'.result = "data")
                      => ret'.data = ret.data
         /\ is_fifo
              => IF ret'.result = "data"
                   THEN /\ meta'.write_idx = meta.write_idx
                        /\ IF ret'.latest
                             THEN /\ meta'.read_idx = meta.write_idx
                                  /\ meta'.count = 0
                             ELSE /\ meta'.read_idx = meta.read_idx + 1
                                  /\ meta'.count = meta.count - 1
                   ELSE meta' = meta ]_vars

\* a ring consume has returned the record of a publish and moved read_index
\* and count, while the slot it read keeps its MODIFIED bits and counters
C8_Witness ==
  /\ is_fifo
  /\ ret.op = "read" /\ ret.result = "data" /\ ~ret.latest
  /\ meta.read_idx = 1 /\ meta.count = 0 /\ meta.write_idx = 1
  /\ is_modified(ret.data["name"].status)
  /\ is_modified(mem[ret.slot_idx].status[2])
  /\ mem[ret.slot_idx].seq_end = 1

(***************************************************************************)
(* C9 (Spec).  A single-slot consume with reset_modified that returns a    *)
(* record reports every field's status byte as it was before the reset;    *)
(* afterwards MODIFIED is clear for every field, while TRUNCATED,           *)
(* UNWRITTEN, the bodies and both sequence counters are as before; and the *)
(* consume that directly follows reports modified=false for every field.   *)
(***************************************************************************)
C9_ResetModified ==
  [][ /\ ( /\ ~is_fifo
           /\ ret'.op = "read" /\ ret'.result = "data" /\ ret'.reset_modified )
         => /\ \A i \in FieldIdx :
                 /\ ret'.data[fields[i].name].status = mem[0].status[i]
                 /\ ~is_modified(mem'[0].status[i])
                 /\ is_truncated(mem'[0].status[i])
                      <=> is_truncated(mem[0].status[i])
                 /\ is_unwritten(mem'[0].status[i])
                      <=> is_unwritten(mem[0].status[i])
            /\ mem'[0].body = mem[0].body
            /\ mem'[0].seq_begin = mem[0].seq_begin
            /\ mem'[0].seq_end = mem[0].seq_end
      /\ ( /\ ~is_fifo
           /\ ret.op = "read" /\ ret.result = "data" /\ ret.reset_modified
           /\ ret'.op = "read" /\ ret'.result = "data" )
         => \A n \in FieldNames : ~is_modified(ret'.data[n].status) ]_vars

\* a consume with reset_modified has reported a field modified and
\* truncated; the slot keeps TRUNCATED and has lost MODIFIED
C9_Witness ==
  /\ ~is_fifo
  /\ ret.op = "read" /\ ret.result = "data" /\ ret.reset_modified
  /\ is_modified(ret.data["name"].status)
  /\ is_truncated(ret.data["name"].status)
  /\ mem[0].status[2] = MASK_TRUNCATED

(***************************************************************************)
(* C10 (ConcSpec).  Single slot, one writer and one reader: once both the  *)
(* publish and the consume have completed, the UNWRITTEN and TRUNCATED     *)
(* bits of every field are the ones the writer last stored.                *)
(***************************************************************************)
C10_ResetTouchesOnlyModified ==
  (~is_fifo /\ wpc = "idle" /\ rpc = "idle")
    => \A i \in FieldIdx :
         /\ is_unwritten(mem[0].status[i]) <=> is_unwritten(wrote[0][i])
         /\ is_truncated(mem[0].status[i]) <=> is_truncated(wrote[0][i])


(***************************************************************************)
(* C11 (Spec).  In ring mode a publish changes no slot and no ring         *)
(* counter, and a consume before the first finalize returns no data.       *)
(***************************************************************************)
C11_PublishStagesOnly ==
  [][ /\ (is_fifo /\ ret'.op = "write")
         => /\ mem' = mem
            /\ meta' = meta
            /\ published' = published
      /\ (is_fifo /\ ret'.op = "read" /\ Len(published) = 0)
         => ret'.result # "data" ]_vars

\* two fields are staged, nothing was finalized, and a consume returned None
C11_Witness ==
  /\ is_fifo
  /\ DOMAIN write_buffer = {"position", "name"} /\ write_buffer_dirty
  /\ Len(published) = 0
  /\ meta = [write_idx |-> 0, read_idx |-> 0, count |-> 0]
  /\ ret.op = "read" /\ ret.result = "None"

\* the value a consume returns for a published value: a string is cut to
\* the first string_max_chars code points, a scalar is returned as it is
Expected(field_info, value) ==
  IF field_info.is_string /\ Len(value) > field_info.string_max_chars
    THEN SubSeq(value, 1, field_info.string_max_chars)
    ELSE value

(***************************************************************************)
(* C12 (Spec).  In ring mode each publish adds its fields to the staging   *)
(* map, a later value of a field replacing the earlier one; a finalize     *)
(* writes exactly the staged fields to one slot as one message (MODIFIED   *)
(* set for them and for no other field, their values the staged ones) and  *)
(* empties the staging map.                                                *)
(***************************************************************************)
C12_FinalizeCommitsStaged ==
  [][ /\ (is_fifo /\ ret'.op = "write")
         => \E k \in Updates :
              /\ DOMAIN write_buffer' = DOMAIN write_buffer \cup DOMAIN k
              /\ \A n \in DOMAIN write_buffer' :
                   write_buffer'[n] = IF n \in DOMAIN k THEN k[n]
                                      ELSE write_buffer[n]
      /\ (is_fifo /\ ret'.op = "finalize" /\ CommitStep)
         => LET s == ret'.slot_idx
            IN /\ write_buffer' = << >>
               /\ ~write_buffer_dirty'
               /\ Len(published') = Len(published) + 1
               /\ \A t \in SlotIdx \ {s} : mem'[t] = mem[t]
               /\ \A i \in FieldIdx :
                    LET n == fields[i].name
                    IN IF n \in DOMAIN write_buffer
                         THEN /\ is_modified(mem'[s].status[i])
                              /\ SlotRecord(mem'[s])[n].value
                                   = Expected(fields[i], write_buffer[n])
                         ELSE /\ ~is_modified(mem'[s].status[i])
                              /\ mem'[s].body[i] = mem[s].body[i] ]_vars

\* the second message holds the string alone, in a slot of its own; the
\* scalar of the first message is not part of it
C12_Witness ==
  /\ is_fifo
  /\ ret.op = "finalize" /\ ret.result = "committed"
  /\ Len(published) = 2 /\ ret.slot_idx = 1
  /\ DOMAIN ret.kwargs = {"name"}
  /\ write_buffer = << >>
  /\ is_modified(mem[0].status[1])
  /\ ~is_modified(mem[1].status[1]) /\ is_modified(mem[1].status[2])

(***************************************************************************)
(* C13 (Spec).  On a ring with count >= 1 a consume with latest returns    *)
(* the most recently finalized message, the one in slot                    *)
(* (write_index - 1) mod slot_count, and leaves count == 0 and             *)
(* read_index == write_index; the consume after it returns no data.        *)
(***************************************************************************)
C13_LatestReturnsNewest ==
  [][ /\ ( /\ is_fifo /\ meta.count >= 1
           /\ ret'.op = "read" /\ ret'.latest /\ ~ret'.reset_modified )
         => /\ ret'.result = "data"
            /\ ret'.slot_idx = (meta.write_idx - 1) % slots
            /\ RetId(ret') = published[Len(published)]
            /\ ret'.data = snapshots[ret'.slot_idx][1]
            /\ meta'.count = 0
            /\ meta'.write_idx = meta.write_idx
            /\ meta'.read_idx = meta.write_idx
      /\ ( /\ is_fifo
           /\ ret.op = "read" /\ ret.latest /\ ret.result = "data"
           /\ ret'.op = "read" /\ ~ret'.reset_modified )
         => ret'.result = "None" ]_vars

\* two messages were pending; a consume with latest has returned the second
\* and left the ring empty
C13_Witness ==
  /\ is_fifo
  /\ ret.op = "read" /\ ret.latest /\ ret.result = "data"
  /\ Len(published) = 2
  /\ delivered = published[2]
  /\ meta = [write_idx |-> 2, read_idx |-> 2, count |-> 0]


\* the field the codec is working on
CodecField == CodecFields[codec.field]

\* the published value fits the declared field: a string of at most
\* max_chars code points, an array of exactly the declared shape; the
\* scalars published are all in the range of their type
Fits ==
  /\ CodecField.is_string => Len(codec.value) <= CodecField.string_max_chars
  /\ CodecField.is_array => codec.value.shape = CodecField.array_shape

(***************************************************************************)
(* C14 (CodecSpec).  Round trip: a value that fits its field is read back  *)
(* equal to the value published, with truncated and unwritten clear, valid *)
(* set and modified set.                                                   *)
(***************************************************************************)
C14_RoundTrip ==
  (codec.phase = "read" /\ Fits)
    => /\ codec.out = codec.value
       /\ ~is_truncated(codec.status)
       /\ ~is_unwritten(codec.status)
       /\ is_valid(codec.status)
       /\ is_modified(codec.status)

\* the most negative int32 has made the round trip
C14_Witness ==
  /\ codec.phase = "read"
  /\ CodecField.field_type = "int"
  /\ codec.value = (-INT32_MAX) - 1
  /\ codec.out = codec.value
  /\ codec.body = << 0, 0, 0, 128 >>

(***************************************************************************)
(* C15 (CodecSpec).  A string s published to a field of max_chars = n has  *)
(* TRUNCATED set iff it has more than n code points; it is read back as s  *)
(* when it has at most n code points and as its first n code points        *)
(* otherwise, and then valid is false.                                     *)
(***************************************************************************)
C15_TruncationByCodePoints ==
  (CodecField.is_string /\ codec.phase \in {"written", "read"})
    => LET n == CodecField.string_max_chars
           long == Len(codec.value) > n
       IN /\ is_truncated(codec.status) <=> long
          /\ codec.truncated <=> long
          /\ long => ~is_valid(codec.status)
          /\ codec.phase = "read"
               => codec.out = IF long THEN SubSeq(codec.value, 1, n)
                              ELSE codec.value

\* a string of exactly max_chars code points, all of them four bytes long,
\* was read back whole and not truncated, over the bytes of an older string
C15_Witness ==
  /\ CodecField.is_string /\ codec.phase = "read"
  /\ Len(codec.value) = MaxChars
  /\ \A i \in 1..MaxChars : codec.value[i] = 128512
  /\ codec.out = codec.value
  /\ codec.body.len = 4 * MaxChars
  /\ ~is_truncated(codec.status)

(***************************************************************************)
(* C16 (CodecSpec).  An array published to a field of E = product(shape)   *)
(* elements is stored as the first E elements of its row-major flattening, *)
(* padded with zeros when it has fewer; TRUNCATED is set iff it has more   *)
(* than E elements, fewer than E elements, or another shape than the       *)
(* declared one, so it is clear only for exactly the declared shape.       *)
(***************************************************************************)
C16_ArrayEncode ==
  (CodecField.is_array /\ codec.phase \in {"written", "read"})
    => LET E == Prod(CodecField.array_shape)
           n == Len(codec.value.flat)
       IN /\ Len(codec.body) = E
          /\ \A i \in 1..E :
               read_int32(codec.body[i])
                 = IF i <= n THEN codec.value.flat[i] ELSE 0
          /\ is_truncated(codec.status)
               <=> \/ n > E
                   \/ n < E
                   \/ codec.value.shape # CodecField.array_shape
          /\ ~is_truncated(codec.status)
               <=> codec.value.shape = CodecField.array_shape

\* an array with the declared number of elements but another shape was
\* stored element for element and flagged truncated
C16_Witness ==
  /\ CodecField.is_array /\ codec.phase = "read"
  /\ codec.value.shape = << 1, ArrayLen >>
  /\ codec.out.flat = codec.value.flat
  /\ codec.out.shape = << ArrayLen, 1 >>
  /\ is_truncated(codec.status)


\* bit k (of value 2^k) of a byte, read off arithmetically
Bit(b, k) == (b \div (2 ^ k)) % 2 = 1

(***************************************************************************)
(* C17 (Spec).  For every field of every record a consume returns, and for *)
(* every status byte value over the three defined bits, valid == (not      *)
(* truncated and not unwritten); the MODIFIED bit has no influence on      *)
(* valid.                                                                  *)
(***************************************************************************)
C17_ValidIffExact ==
  /\ (ret.op = "read" /\ ret.result = "data")
       => \A n \in FieldNames :
            valid(ret.data[n])
              <=> ( /\ ~is_truncated(ret.data[n].status)
                    /\ ~is_unwritten(ret.data[n].status) )
  /\ \A b \in StatusBytes :
       /\ is_truncated(b) <=> Bit(b, 0)
       /\ is_unwritten(b) <=> Bit(b, 1)
       /\ is_valid(b) <=> (~Bit(b, 0) /\ ~Bit(b, 1))
       /\ is_valid(b) <=> is_valid(IF Bit(b, 2) THEN b - 4 ELSE b + 4)

\* a consume has returned a record with a valid field that is not modified
\* any more and a field that is modified but truncated, so not valid
C17_Witness ==
  /\ ret.op = "read" /\ ret.result = "data"
  /\ ret.data["position"].status = 0
  /\ valid(ret.data["position"])
  /\ ret.data["name"].status = MASK_TRUNCATED + MASK_MODIFIED
  /\ ~valid(ret.data["name"])


(***************************************************************************)
(* C18 (Spec).  finalize on a single-slot handle fails and changes         *)
(* nothing: slot 0 and every counter are as before, and the consume that   *)
(* follows returns the record the preceding publish left.                  *)
(***************************************************************************)
C18_FinalizeSingleSlotFails ==
  [][ /\ (~is_fifo /\ ret'.op = "finalize")
         => /\ ret'.result = "RuntimeError"
            /\ mem' = mem
            /\ meta' = meta
            /\ write_buffer' = write_buffer
            /\ write_buffer_dirty' = write_buffer_dirty
            /\ published' = published
      /\ (~is_fifo /\ ret.op = "finalize" /\ ret'.op = "read")
         => /\ ret'.result = "data"
            /\ ret'.seq = Len(published)
            /\ mem[0].status = wrote[0] => ret'.data = snapshots[0][1] ]_vars

\* a finalize has failed on a single slot that holds a publish, untouched
C18_Witness ==
  /\ ~is_fifo
  /\ ret.op = "finalize" /\ ret.result = "RuntimeError"
  /\ Len(published) = 1
  /\ mem[0].seq_begin = 1 /\ mem[0].seq_end = 1
  /\ mem[0].status = << MASK_MODIFIED, MASK_MODIFIED >>
  /\ SlotRecord(mem[0]) = snapshots[0][1]

(***************************************************************************)
(* C19 (Spec).  A consume with reset_modified on a ring, with or without   *)
(* latest, fails and consumes nothing: no slot and no ring counter         *)
(* changes, and the next consume without reset_modified still returns the  *)
(* pending message.                                                        *)
(***************************************************************************)
C19_ResetModifiedOnRingFails ==
  [][ /\ (is_fifo /\ ret'.op = "read" /\ ret'.reset_modified)
         => /\ ret'.result = "ValueError"
            /\ mem' = mem
            /\ meta' = meta
            /\ delivered' = delivered
      /\ ( /\ is_fifo /\ ret.result = "ValueError"
           /\ ret'.op = "read" /\ ~ret'.reset_modified )
         => LET K == Len(published)
                oldest == Max(PubIndex(delivered) + 1, K - slots + 1)
            IN IF oldest > K
                 THEN ret'.result = "None"
                 ELSE /\ ret'.result = "data"
                      /\ RetId(ret') = published[IF ret'.latest THEN K
                                                 ELSE oldest] ]_vars

\* a consume with latest and reset_modified has failed on a ring with two
\* pending messages, which are both still pending
C19_Witness ==
  /\ is_fifo
  /\ ret.op = "read" /\ ret.result = "ValueError"
  /\ ret.latest /\ ret.reset_modified
  /\ Len(published) = 2
  /\ meta = [write_idx |-> 2, read_idx |-> 0, count |-> 2]
  /\ delivered = NoDelivery


(***************************************************************************)
(* C20 (RaiseSpec).  A publish (single slot) or finalize (ring) in which   *)
(* the encoding of a field's value fails changes nothing: the slot's       *)
(* sequence counters, status bytes and bodies and the ring counters are as *)
(* before the call, so seq_begin == seq_end still holds in every slot.     *)
(***************************************************************************)
C20_NoPartialPublish ==
  [][ ret'.result = "EncodeError"
      => /\ mem' = mem
         /\ meta' = meta
         /\ \A s \in SlotIdx : mem'[s].seq_begin = mem'[s].seq_end ]_vars


(***************************************************************************)
(* Helpers of the properties about the polling loop.                       *)
(***************************************************************************)
\* this step ends one pass of the loop of a read() call: the call returns,
\* or it sleeps and goes on to its next pass
PollPass ==
  rpc \in {"poll", "slot"} /\ (rpc' = "idle" \/ r'.polls = r.polls + 1)

\* the slot the reader is about to read
PollSlot == IF is_fifo THEN r.slot_idx ELSE 0

\* the reader is about to read a slot, and the slot is torn
FindsTorn ==
  /\ rpc = IF is_fifo THEN "slot" ELSE "poll"
  /\ mem[PollSlot].seq_begin # mem[PollSlot].seq_end

\* the reader is about to read a slot, and the slot is consistent
FindsConsistent ==
  /\ rpc = IF is_fifo THEN "slot" ELSE "poll"
  /\ mem[PollSlot].seq_begin = mem[PollSlot].seq_end

(***************************************************************************)
(* C21 (PollSpec).  read(timeout=0) is non-blocking: every pass of its     *)
(* loop returns, with a record or with None, in single-slot and in ring    *)
(* mode, also when the slot it reads has seq_begin # seq_end; it never     *)
(* sleeps to wait for the writer.                                          *)
(***************************************************************************)
C21_NonBlocking ==
  [][ (PollPass /\ r.timeout = 0)
      => /\ rpc' = "idle"
         /\ ret'.op = "read"
         /\ ret'.result \in {"data", "None"} ]_vars

(***************************************************************************)
(* C22 (PollSpec).  A ring read() that finds count = 0 waits by polling:   *)
(* with timeout 0, or once the deadline has passed, that pass returns      *)
(* None; before the deadline it sleeps and looks again.  A pass that finds *)
(* count > 0 and the slot consistent (the finalize has completed) returns  *)
(* the record that finalize left in slot read_idx % slots.  Every return   *)
(* of None leaves write_idx, read_idx, count and the slots unchanged, and  *)
(* the call ends with a record or None, never with an error.               *)
(***************************************************************************)
C22_EmptyRingWaits ==
  [][ (is_fifo /\ rpc # "idle" /\ (rpc' # rpc \/ r'.polls # r.polls))
      => /\ (rpc = "poll" /\ meta.count = 0)
              => IF r.timeout = 0 \/ r.expired
                   THEN rpc' = "idle" /\ ret'.op = "read" /\ ret'.result = "None"
                   ELSE rpc' = "poll" /\ ret' = ret
         /\ (rpc = "poll" /\ meta.count > 0)
              => /\ rpc' = "slot"
                 /\ r'.slot_idx = LatestAdjust(meta, r.latest).read_idx % slots
         /\ FindsConsistent
              => /\ rpc' = "idle"
                 /\ ret'.op = "read" /\ ret'.result = "data"
                 /\ ret'.slot_idx = PollSlot
                 /\ ret'.data = snapshots[PollSlot][1]
         /\ (rpc' = "idle" /\ ret'.result = "None")
              => meta' = meta /\ mem' = mem
         /\ rpc' = "idle" => ret'.result \in {"data", "None"} ]_vars

\* a ring read with a positive timeout slept on the empty ring and then
\* returned the message of the first finalize, which completed meanwhile
C22_Witness ==
  /\ is_fifo
  /\ ret.op = "read" /\ ret.result = "data" /\ ret.polls >= 1
  /\ ret.slot_idx = 0 /\ ret.seq = 1
  /\ ncommits = 1
  /\ meta = [write_idx |-> 1, read_idx |-> 1, count |-> 0]

(***************************************************************************)
(* C23 (PollSpec).  A read() with a positive timeout retries a torn slot   *)
(* until success or timeout, in single-slot and in ring mode: a pass that  *)
(* finds the slot torn sleeps and tries again before the deadline and      *)
(* returns None once the deadline has passed; a pass that finds the slot   *)
(* consistent (the writer has completed its publish) returns the record    *)
(* of that slot.                                                           *)
(***************************************************************************)
C23_TornRetriedUntilTimeout ==
  [][ (PollPass /\ r.timeout > 0)
      => /\ (FindsTorn /\ r.expired)
              => rpc' = "idle" /\ ret'.op = "read" /\ ret'.result = "None"
         /\ (FindsTorn /\ ~r.expired)
              => rpc' = "poll" /\ mem' = mem /\ meta' = meta
         /\ FindsConsistent
              => /\ rpc' = "idle"
                 /\ ret'.op = "read" /\ ret'.result = "data"
                 /\ ret'.data = SlotRecord(mem[PollSlot]) ]_vars

(***************************************************************************)
(* C24 (Spec).  Opening an existing region (create=False) changes no byte  *)
(* of it: every slot and the ring counters are as before.  The read that   *)
(* follows the open therefore gets what was written before the open: on a  *)
(* single slot, and on a ring with count > 0, the record of the slot as it *)
(* was before the open; on an empty ring None.  Only the creation of the   *)
(* region initializes slots and counters.                                  *)
(***************************************************************************)
C24_OpenChangesNothing ==
  [][ /\ ret'.op = "open" => mem' = mem /\ meta' = meta
      /\ (ret.op = "open" /\ ret'.op = "read" /\ ret'.result # "ValueError")
           => LET m == LatestAdjust(meta, ret'.latest)
                  slot_idx == IF is_fifo THEN m.read_idx % slots ELSE 0
              IN IF is_fifo /\ meta.count = 0
                   THEN ret'.result = "None"
                   ELSE /\ ret'.result = "data"
                        /\ ret'.slot_idx = slot_idx
                        /\ ret'.data = SlotRecord(mem[slot_idx])
                        /\ ret'.seq = mem[slot_idx].seq_end ]_vars

\* a handle has been opened on a ring that holds two finalized messages, and
\* the slots and counters are as the finalizes left them
C24_Witness ==
  /\ is_fifo
  /\ ret.op = "open"
  /\ meta = [write_idx |-> 2, read_idx |-> 0, count |-> 2]
  /\ mem[0].seq_begin = 1 /\ mem[0].seq_end = 1
  /\ \E i \in FieldIdx : ~is_unwritten(mem[0].status[i])

\* what a finalize that commits does to the region: the staging buffer goes
\* to slot write_idx % slots, whose sequence counters go up by one, no other
\* slot changes, write_idx goes up by exactly 1, and count goes up by 1
\* below slot_count or else stays while read_idx goes up by 1
FinalizeCommits ==
  LET s == meta.write_idx % slots
  IN /\ ret'.result = "committed"
     /\ ret'.slot_idx = s
     /\ ret'.kwargs = write_buffer
     /\ mem'[s].seq_begin = mem[s].seq_begin + 1
     /\ mem'[s].seq_end = mem'[s].seq_begin
     /\ \A i \in FieldIdx :
          is_modified(mem'[s].status[i]) <=> fields[i].name \in DOMAIN write_buffer
     /\ \A t \in SlotIdx \ {s} : mem'[t] = mem[t]
     /\ meta'.write_idx = meta.write_idx + 1
     /\ IF meta.count < slots
          THEN meta'.count = meta.count + 1 /\ meta'.read_idx = meta.read_idx
          ELSE meta'.count = meta.count /\ meta'.read_idx = meta.read_idx + 1

(***************************************************************************)
(* C25 as stated (Spec).  Every finalize on a ring handle writes the       *)
(* staging map to slot write_index mod slot_count and then increments      *)
(* write_index by exactly 1; it increments count by 1 when count <         *)
(* slot_count and otherwise leaves count unchanged and increments          *)
(* read_index by 1.                                                        *)
(***************************************************************************)
C25_Original ==
  [][ (is_fifo /\ ret'.op = "finalize") => FinalizeCommits ]_vars

(***************************************************************************)
(* C25 as amended (Spec).  A finalize on a ring handle on which publish    *)
(* was called since the handle was created or last finalized writes the    *)
(* staging map to slot write_index mod slot_count and then increments      *)
(* write_index by exactly 1; it increments count by 1 when count <         *)
(* slot_count and otherwise leaves count unchanged and increments          *)
(* read_index by 1.  A finalize with no publish before it changes no slot  *)
(* and no counter.                                                         *)
(***************************************************************************)
C25_FinalizeAdvances ==
  [][ (is_fifo /\ ret'.op = "finalize")
      => IF write_buffer_dirty
           THEN FinalizeCommits
           ELSE ret'.result = "nothing" /\ mem' = mem /\ meta' = meta ]_vars

\* a finalize on a full ring has wrapped around: it wrote slot 0 again and
\* moved read_index instead of count
C25_Witness ==
  /\ is_fifo
  /\ ret.op = "finalize" /\ ret.result = "committed" /\ ret.slot_idx = 0
  /\ meta = [write_idx |-> slots + 1, read_idx |-> 1, count |-> slots]
  /\ mem[0].seq_end = 2

(***************************************************************************)
(* C26 (Spec).  A ring consume without latest that returns a record reads  *)
(* slot read_index mod slot_count, then increments read_index by exactly 1 *)
(* and decrements count by exactly 1, and leaves write_index and every     *)
(* slot's sequence counters, status bytes and bodies unchanged.            *)
(***************************************************************************)
C26_ConsumeAdvancesReadOnly ==
  [][ (is_fifo /\ ret'.op = "read" /\ ret'.result = "data" /\ ~ret'.latest)
      => LET s == meta.read_idx % slots
         IN /\ meta.count >= 1
            /\ ret'.slot_idx = s
            /\ ret'.seq = mem[s].seq_begin
            /\ ret'.data = SlotRecord(mem[s])
            /\ meta'.read_idx = meta.read_idx + 1
            /\ meta'.count = meta.count - 1
            /\ meta'.write_idx = meta.write_idx
            /\ \A t \in SlotIdx :
                 /\ mem'[t].seq_begin = mem[t].seq_begin
                 /\ mem'[t].seq_end = mem[t].seq_end
                 /\ mem'[t].status = mem[t].status
                 /\ mem'[t].body = mem[t].body ]_vars

\* the first of two pending messages has been consumed: one is left, and
\* the slot that was read still holds the message
C26_Witness ==
  /\ is_fifo
  /\ ret.op = "read" /\ ret.result = "data" /\ ~ret.latest
  /\ ret.slot_idx = 0
  /\ meta = [write_idx |-> 2, read_idx |-> 1, count |-> 1]
  /\ mem[0].seq_begin = 1 /\ mem[0].seq_end = 1
  /\ ret.data = SlotRecord(mem[0])

(***************************************************************************)
(* C27 (PollSpec).  A ring consume attempt whose slot read is torn stores  *)
(* nothing: write_idx, read_idx and count in shared memory and every slot  *)
(* are as before the attempt, also when latest had moved the local         *)
(* read_idx to write_idx - 1; the call goes back to the top of its loop,   *)
(* where the next attempt takes its counters from shared memory again.     *)
(* Only an attempt that reads the slot consistently stores counters, the   *)
(* ones of that attempt advanced by one message.                           *)
(***************************************************************************)
C27_TornAttemptStoresNothing ==
  [][ (is_fifo /\ rpc # "idle" /\ (rpc' # rpc \/ r'.polls # r.polls))
      => /\ FindsTorn
              => /\ meta' = meta /\ mem' = mem
                 /\ rpc' = "poll" /\ r'.polls = r.polls + 1
                 /\ ret' = ret
         /\ (rpc = "poll" /\ meta.count > 0)
              => /\ rpc' = "slot"
                 /\ meta' = meta
                 /\ PollLocals' = LatestAdjust(meta, r.latest)
                 /\ r'.slot_idx = LatestAdjust(meta, r.latest).read_idx % slots
         /\ FindsConsistent
              => meta' = ConsumeAdvance(PollLocals) ]_vars

\* an attempt with latest found two messages pending, moved its local
\* read_idx to write_idx - 1 and found that slot torn, because the writer
\* had meanwhile come round to it; the counters in shared memory are the
\* writer's, and the call is back at the top of its loop
C27_Witness ==
  /\ is_fifo
  /\ rpc = "poll" /\ r.polls >= 1 /\ r.latest
  /\ r.count = 1 /\ r.read_idx = r.write_idx - 1
  /\ r.write_idx = 2
  /\ wpc = "ws_fields" /\ w.slot_idx = r.slot_idx
  /\ mem[r.slot_idx].seq_begin # mem[r.slot_idx].seq_end
  /\ meta.write_idx = slots + 1 /\ meta.read_idx = 1 /\ meta.count = slots

(***************************************************************************)
(* C28 (Spec).  A publish to a slot leaves every field that is not in the  *)
(* update as it was, except that it clears the field's MODIFIED bit: the   *)
(* body bytes and the value decoded from them, UNWRITTEN and TRUNCATED are *)
(* the same after the publish as before.  No step other than a publish     *)
(* that includes the field changes the field's body, so a consume returns  *)
(* the value of the last publish to the slot that included the field.      *)
(***************************************************************************)
C28_SkippedFieldKept ==
  [][ \A s \in SlotIdx, i \in FieldIdx :
        LET included == /\ CommitStep
                        /\ ret'.slot_idx = s
                        /\ fields[i].name \in DOMAIN ret'.kwargs
        IN /\ (CommitStep /\ ret'.slot_idx = s /\ ~included)
                => /\ mem'[s].body[i] = mem[s].body[i]
                   /\ ReadField(mem'[s], i).value = ReadField(mem[s], i).value
                   /\ is_unwritten(mem'[s].status[i])
                        <=> is_unwritten(mem[s].status[i])
                   /\ is_truncated(mem'[s].status[i])
                        <=> is_truncated(mem[s].status[i])
                   /\ ~is_modified(mem'[s].status[i])
           /\ ~included => mem'[s].body[i] = mem[s].body[i]
           /\ (ret'.op = "read" /\ ret'.result = "data" /\ ret'.slot_idx = s)
                => ret'.data[fields[i].name].value
                     = ReadField(mem[s], i).value ]_vars

\* the string was published (too long, so truncated) and then the scalar
\* alone: the string's body, its TRUNCATED bit and its cleared UNWRITTEN bit
\* are those of the first publish, and only MODIFIED is gone
C28_Witness ==
  /\ ~is_fifo
  /\ ret.op = "write" /\ ret.result = "committed"
  /\ DOMAIN ret.kwargs = {"position"}
  /\ mem[0].seq_end = 2
  /\ mem[0].status[2] = MASK_TRUNCATED
  /\ ReadField(mem[0], 2).value = SubSeq(LongString, 1, MaxChars)

\* the truncation outcome of a publish of value to the field: a string is
\* cut when it has more code points than the field declares; a scalar never
Truncates(field_info, value) ==
  field_info.is_string /\ Len(value) > field_info.string_max_chars

(***************************************************************************)
(* C29 (Spec).  In every step and for every slot and field: a publish to   *)
(* the slot that includes the field leaves TRUNCATED set iff that publish  *)
(* cut the value (so a truncating publish sets it and a later publish of a *)
(* value that fits clears it), and every other step (a publish without the *)
(* field, a publish to another slot or of another field, a consume, a      *)
(* reset_modified) leaves the bit as it was.  Hence TRUNCATED always       *)
(* equals the outcome of the most recent publish of that field in that     *)
(* slot.                                                                   *)
(***************************************************************************)
C29_TruncatedTracksLastPublish ==
  [][ \A s \in SlotIdx, i \in FieldIdx :
        IF /\ CommitStep
           /\ ret'.slot_idx = s
           /\ fields[i].name \in DOMAIN ret'.kwargs
          THEN is_truncated(mem'[s].status[i])
                 <=> Truncates(fields[i], ret'.kwargs[fields[i].name])
          ELSE is_truncated(mem'[s].status[i])
                 <=> is_truncated(mem[s].status[i]) ]_vars

\* the string was published too long and then again with a value that fits:
\* TRUNCATED is clear again (the second byte of the first value's encoding
\* is still in the buffer, beyond the length of the second)
C29_Witness ==
  /\ ~is_fifo
  /\ ret.op = "write" /\ ret.result = "committed"
  /\ "name" \in DOMAIN ret.kwargs /\ ret.kwargs["name"] = ShortString
  /\ ~is_truncated(mem[0].status[2])
  /\ ReadField(mem[0], 2).value = ShortString
  /\ mem[0].body[2].len = 1
  /\ mem[0].body[2].buf[2] = 169

DeclaredSize(field_type) ==
  IF field_type.kind = "float" THEN 8
  ELSE IF field_type.kind = "int" THEN 4
  ELSE IF field_type.kind = "bool" THEN 1
  ELSE IF field_type.kind = "str" THEN 4 + 4 * field_type.chars
  ELSE ItemSize(field_type.dtype) * Prod(field_type.shape)

\* the parts of a slot, as address sets relative to the start of the slot:
\* seq_begin, the status bytes, the body of each field, seq_end
SlotParts ==
  LET n == Len(layout.fields)
  IN [p \in 0..(n + 2) |->
        IF p = 0 THEN Uint64At(0)
        ELSE IF p = n + 1 THEN 8..(8 + n - 1)
        ELSE IF p = n + 2 THEN Uint64At(layout.total_size - 8)
        ELSE layout.fields[p].offset
             ..(layout.fields[p].offset + layout.fields[p].size - 1)]

\* C32: for every schema that is laid out, every field has the size of its
\* kind, the first field starts at 8 + n rounded up to a multiple of 8, every
\* later field starts where the one before it ends, slot_size is the end of
\* the last field plus 8 rounded up to a multiple of 8, and seq_begin, the
\* status bytes, the field bodies and seq_end (at slot_size - 8) are pairwise
\* disjoint and lie inside the slot.
C32_LayoutContiguousDisjoint ==
  layout.phase = "ready" =>
    LET f == layout.fields
        n == Len(f)
        first == Align8(8 + n)
        last_end == IF n = 0 THEN first ELSE f[n].offset + f[n].size
    IN /\ n = Len(layout.types)
       /\ \A i \in 1..n : f[i].size = DeclaredSize(layout.types[i])
       /\ n >= 1 => f[1].offset = first
       /\ \A i \in 2..n : f[i].offset = f[i - 1].offset + f[i - 1].size
       /\ layout.total_size = Align8(last_end + 8)
       /\ layout.total_size % 8 = 0
       /\ \A p \in DOMAIN SlotParts :
            SlotParts[p] \subseteq 0..(layout.total_size - 1)
       /\ \A p, q \in DOMAIN SlotParts :
            p # q => SlotParts[p] \cap SlotParts[q] = {}

\* a schema of MaxFields fields is laid out whose first field is a bool and
\* whose last field is a string: the string is not aligned, and padding lies
\* between its end and seq_end
C32_Witness ==
  /\ layout.phase = "ready"
  /\ Len(layout.fields) = MaxFields
  /\ layout.types[1].kind = "bool"
  /\ layout.fields[MaxFields].is_string
  /\ layout.fields[MaxFields].offset % 8 # 0
  /\ layout.total_size - 8
       > layout.fields[MaxFields].offset + layout.fields[MaxFields].size

\* the addresses of the region that hold the ring counters
MetaBytes == 0..(metadata_size - 1)

\* the addresses of the region that belong to slot j: the slots follow the
\* ring counters, each of slot_size bytes
SlotBytes(j) ==
  {a \in 0..(region_size - 1) :
     a >= metadata_size /\ (a - metadata_size) \div layout.total_size = j}

\* C31: a slot write to slot i stores only to addresses inside slot i, so to
\* no address of the ring counters and to no address (sequence counters,
\* status bytes, bodies) of another slot; the store of the ring counters
\* stores to no address of any slot.
C31_SlotIsolation ==
  /\ layout.op = "write_to_slot" =>
       /\ layout.stores \subseteq SlotBytes(layout.slot_idx)
       /\ layout.stores \cap MetaBytes = {}
       /\ \A j \in SlotIdx \ {layout.slot_idx} :
            layout.stores \cap SlotBytes(j) = {}
  /\ layout.op = "set_fifo_metadata" =>
       /\ layout.stores \subseteq MetaBytes
       /\ \A j \in SlotIdx : layout.stores \cap SlotBytes(j) = {}

\* on a ring, the last slot was written with every field of a schema of
\* MaxFields fields in the update, one of them a string that fills its
\* buffer: the stores reach from the first byte of the slot to the last byte
\* of the region
C31_Witness ==
  /\ is_fifo
  /\ layout.op = "write_to_slot"
  /\ layout.slot_idx = slots - 1
  /\ Len(layout.fields) = MaxFields
  /\ get_slot_offset(layout.slot_idx) \in layout.stores
  /\ region_size - 1 \in layout.stores
  /\ \A i \in DOMAIN layout.fields :
       layout.fields[i].size > 0 =>
         get_slot_offset(layout.slot_idx) + layout.fields[i].offset
           + layout.fields[i].size - 1 \in layout.stores
  /\ \E i \in DOMAIN layout.fields : layout.fields[i].is_string

\* C33: in every state that whole finalize and consume operations on a ring
\* of N slots reach (consumes with latest included), 0 <= count <= N,
\* read_idx <= write_idx and count = write_idx - read_idx.
C33_CountersConsistent ==
  is_fifo =>
    /\ 0 <= meta.count
    /\ meta.count <= slots
    /\ meta.read_idx <= meta.write_idx
    /\ meta.count = meta.write_idx - meta.read_idx

\* more finalizes than the ring has slots have overwritten the oldest
\* message, and a consume with latest has then returned the newest message
\* and left the ring empty
C33_Witness ==
  /\ is_fifo
  /\ meta.write_idx > slots
  /\ ret.op = "read"
  /\ ret.result = "data"
  /\ ret.latest
  /\ RetId(ret) = published[Len(published)]
  /\ meta.read_idx = meta.write_idx
  /\ meta.count = 0

\* C34: with one producer and one consumer running concurrently on a ring,
\* interleaved at the granularity of the loads and stores of the three
\* counters, the shared write_idx never decreases: no store of the consumer
\* undoes the increment of a completed finalize.
C34_WriteIndexNeverDecreases ==
  [][is_fifo => meta'.write_idx >= meta.write_idx]_vars

\* C35: on a single slot, with one writer beside one reader that consumes
\* with reset_modified, no publish loses its change marks: when the latest
\* publish has completed, no call is in progress and no consume has yet
\* returned the record of that publish, every field the publish included still
\* has MODIFIED set in the slot, so that the next consume reports it.
C35_ResetModifiedLossless ==
  ( /\ ~is_fifo
    /\ wpc = "idle"
    /\ rpc = "idle"
    /\ delivered.seq < mem[0].seq_end )
  => \A i \in FieldIdx :
       is_modified(wrote[0][i]) => is_modified(mem[0].status[i])

(***************************************************************************)
(* C36 (Spec).  A finalize on a ring handle with no publish since the      *)
(* previous finalize, or since the handle was created, is a no-op: nothing *)
(* is staged after the creation and after a finalize, a call that is no    *)
(* publish stages nothing, and a finalize with nothing staged leaves       *)
(* write_index, read_index, count and every slot unchanged, so that no     *)
(* empty message becomes visible to the consumer.                          *)
(***************************************************************************)
C36_FinalizeWithoutPublishNoOp ==
  [][ /\ (is_fifo /\ ret.op \in {"none", "finalize"}) => ~write_buffer_dirty
      /\ (ret'.op # "write" /\ ~write_buffer_dirty) => ~write_buffer_dirty'
      /\ (is_fifo /\ ret'.op = "finalize" /\ ~write_buffer_dirty)
         => /\ ret'.result = "nothing"
            /\ mem' = mem
            /\ meta' = meta
            /\ published' = published ]_vars

\* a finalize that follows a finalize with one message pending has returned
\* without a commit: one slot write took place and one message is pending
C36_Witness ==
  /\ is_fifo
  /\ ret.op = "finalize" /\ ret.result = "nothing"
  /\ Len(published) = 1
  /\ meta = [write_idx |-> 1, read_idx |-> 0, count |-> 1]

(***************************************************************************)
(* C37 (Spec).  A publish on a single slot whose update holds no field of  *)
(* the schema (no argument, or only a name that is no field) raises no     *)
(* error and counts as a write: seq_begin and seq_end both go up by 1 and   *)
(* MODIFIED is cleared for every field, while every field's body, its      *)
(* UNWRITTEN bit and its TRUNCATED bit are as before.                      *)
(***************************************************************************)
C37_EmptyPublishCounts ==
  [][ ( /\ ~is_fifo
        /\ ret'.op = "write"
        /\ DOMAIN ret'.kwargs \cap FieldNames = {} )
      => /\ ret'.result = "committed"
         /\ mem'[0].seq_begin = mem[0].seq_begin + 1
         /\ mem'[0].seq_end = mem[0].seq_end + 1
         /\ mem'[0].body = mem[0].body
         /\ \A i \in FieldIdx :
              /\ ~is_modified(mem'[0].status[i])
              /\ is_unwritten(mem'[0].status[i])
                   <=> is_unwritten(mem[0].status[i])
              /\ is_truncated(mem'[0].status[i])
                   <=> is_truncated(mem[0].status[i]) ]_vars

\* a publish of a name that is no field has followed a publish of a string
\* that was truncated: the slot has had two writes, the string field keeps
\* TRUNCATED and has lost MODIFIED, the scalar field is still UNWRITTEN
C37_Witness ==
  /\ ~is_fifo
  /\ ret.op = "write" /\ ret.result = "committed"
  /\ DOMAIN ret.kwargs = {"comment"}
  /\ mem[0].seq_begin = 2 /\ mem[0].seq_end = 2
  /\ mem[0].status = << MASK_UNWRITTEN, MASK_TRUNCATED >>
  /\ mem[0].body[2].len > 0

(***************************************************************************)
(* C38 (Spec).  In ring mode slots are reused without re-initialization.   *)
(* Message k (the k-th finalize, counted from 0) is written to slot        *)
(* k mod N, the slot that message k - N was written to and no message      *)
(* since.  For a field that the finalize does not include, the record of   *)
(* message k has MODIFIED clear and the value, UNWRITTEN and TRUNCATED of   *)
(* the record that message k - N left in the slot (of the initialized slot  *)
(* when k < N): UNWRITTEN is set iff no earlier finalize to the slot        *)
(* included the field, and otherwise the value and TRUNCATED are those of   *)
(* the most recent such finalize, whatever message k - 1 held.  A consume   *)
(* returns the record of the message as its finalize left it.              *)
(***************************************************************************)
C38_SlotReuseKeepsOldFields ==
  [][ /\ (is_fifo /\ ret'.op = "finalize" /\ CommitStep)
         => LET k == Len(published)
                s == ret'.slot_idx
                left == snapshots[s][1]
                new == snapshots'[s][1]
            IN /\ s = k % slots
               /\ published'[k + 1].slot_idx = s
               /\ k >= slots
                    => /\ published[k + 1 - slots].slot_idx = s
                       /\ \A j \in (k + 2 - slots)..k :
                            published[j].slot_idx # s
               /\ k < slots => left = SlotRecord(initialize_slot)
               /\ \A n \in FieldNames \ DOMAIN ret'.kwargs :
                    /\ ~is_modified(new[n].status)
                    /\ new[n].value = left[n].value
                    /\ is_unwritten(new[n].status)
                         <=> is_unwritten(left[n].status)
                    /\ is_truncated(new[n].status)
                         <=> is_truncated(left[n].status)
               /\ \A n \in FieldNames \cap DOMAIN ret'.kwargs :
                    ~is_unwritten(new[n].status)
      /\ (is_fifo /\ ret'.op = "read" /\ ret'.result = "data")
         => ret'.data = snapshots[ret'.slot_idx][1] ]_vars

\* message 0 held the scalar alone (1), message 1 the scalar (2) and the
\* string, message 2 the string alone and was written to slot 0 again; the
\* consume of message 2 has returned the scalar of message 0, not modified
\* and not unwritten, and the string as modified
C38_Witness ==
  /\ is_fifo
  /\ slots = 2
  /\ Len(published) = 3
  /\ ret.op = "read" /\ ret.result = "data"
  /\ ret.slot_idx = 0 /\ ret.seq = 2
  /\ ret.data["position"] = [value |-> 1, status |-> 0]
  /\ is_modified(ret.data["name"].status)
  /\ snapshots[1][1]["position"].value = 2

\* C39: with a single writer, in every reachable state of every slot, a
\* publish abandoned part-way included, seq_end <= seq_begin <= seq_end + 1.
C39_SeqCountersWithinOne ==
  \A s \in SlotIdx :
    /\ mem[s].seq_end <= mem[s].seq_begin
    /\ mem[s].seq_begin <= mem[s].seq_end + 1

=============================================================================
